---- MODULE Spec2Model ----
(***************************************************************************)
(* Foodie: the local persistence utility (utils/storage.js) over the       *)
(* asynchronous key-value store, and the screens that call it.             *)
(*                                                                         *)
(* Text (ids, categories, names) is a sequence of one-character strings,   *)
(* so that prefixes and digits are things the model can look at.           *)
(* Every storage operation is an async function: a call is started, then   *)
(* resumes once per await of the underlying store (a read, a write); other *)
(* calls may run between two resumptions.                                  *)
(***************************************************************************)
EXTENDS Integers, Sequences, FiniteSets

VARIABLES
    storage,    \* AsyncStorage: key -> stored text
    calls,      \* the pending (and last completed) storage.js calls, by slot
    now,        \* Date.now(), a non-decreasing millisecond counter
    budget,     \* calls that may still be started (bounds the exploration)
    nav,        \* the navigation stack, MainFeed at the bottom
    form,       \* the text fields of the Add / Edit form on the stack
    myRecipes,  \* MyRecipesScreen: the displayed list
    allRecipes, \* MainFeedScreen: the user recipes merged after the catalog
    alerts,     \* the Alert dialogs on display, oldest first
    selectedCategory,   \* MainFeedScreen: the category the feed is filtered by
    isFavorited,        \* RecipeDetailScreen: the state of the heart
    favoriteRecipes,    \* FavoritesScreen: the displayed list
    lastToggle          \* history: what the last settled handleToggleFavorite got,
                        \* and what the calls of the Detail screen have logged

\* The state of the browsing screens (MainFeed's filter, RecipeDetail, Favorites).
others == <<selectedCategory, isFavorited, favoriteRecipes, lastToggle>>

ui == <<nav, form, myRecipes, allRecipes, alerts, others>>

vars == <<storage, calls, now, budget, nav, form, myRecipes, allRecipes, alerts, others>>

-----------------------------------------------------------------------------
(* Bounds of the model *)

MaxCalls == 2
ClockStart == 9
MaxClock == 10
MaxRecipes == 3
MaxCatalog == 3
MaxOps == 2
MaxAppOps == 3
MaxBrowseOps == 4
MaxText == 4
MaxNavOps == 4
MaxDetailOps == 6

-----------------------------------------------------------------------------
(* Text and values *)

FAVORITES_KEY == "@foodie_favorites"
MY_RECIPES_KEY == "@foodie_my_recipes"
Keys == {FAVORITES_KEY, MY_RECIPES_KEY}

UserPrefix == <<"u", "s", "e", "r", "_">>
MyFood == <<"m", "y", "f", "o", "o", "d">>

Digit(d) == CASE d = 0 -> "0" [] d = 1 -> "1" [] d = 2 -> "2" [] d = 3 -> "3"
              [] d = 4 -> "4" [] d = 5 -> "5" [] d = 6 -> "6" [] d = 7 -> "7"
              [] d = 8 -> "8" [] d = 9 -> "9"

Digits == {Digit(d) : d \in 0..9}

\* Number.prototype.toString() of a non-negative integer: its decimal digits.
RECURSIVE toString(_)
toString(n) == IF n < 10 THEN <<Digit(n)>> ELSE toString(n \div 10) \o <<Digit(n % 10)>>

\* The stored text of a key: absent (never written), a JSON text (of the value
\* it encodes), or text that is not JSON.
Absent == [kind |-> "absent", value |-> <<>>]
Corrupt == [kind |-> "corrupt", value |-> <<>>]
JSONstringify(v) == [kind |-> "json", value |-> v]

\* What an awaited call settles to: a value of some type, or a thrown error.
Pending == [t |-> "pending", v |-> <<>>]
Throw == [t |-> "throw", v |-> <<>>]
Undefined == [t |-> "undefined", v |-> <<>>]
Null == [t |-> "null", v |-> <<>>]
Array(a) == [t |-> "array", v |-> a]
Object(o) == [t |-> "object", v |-> o]
TextOf(x) == [t |-> "text", v |-> x]

\* Array.prototype.indexOf / findIndex: 0-based, -1 when there is none.
indexOf(a, x) ==
    IF \E i \in 1..Len(a) : a[i] = x
    THEN (CHOOSE i \in 1..Len(a) : a[i] = x /\ \A j \in 1..(i - 1) : a[j] # x) - 1
    ELSE -1

\* a.splice(index, 1): a without the element at the 0-based index.
splice1(a, index) == SubSeq(a, 1, index) \o SubSeq(a, index + 2, Len(a))

\* { ...a, ...b }: every field of b, and the fields of a that b lacks.
Spread(a, b) ==
    [f \in (DOMAIN a) \cup (DOMAIN b) |-> IF f \in DOMAIN b THEN b[f] ELSE a[f]]

\* Number.prototype.toString() of any integer.
numberToString(n) == IF n < 0 THEN <<"-">> \o toString(0 - n) ELSE toString(n)

Newline == "\n"
Whitespace == {" ", Newline}

\* String.prototype.trim(): without the whitespace at either end.
RECURSIVE trimStart(_)
trimStart(s) ==
    IF s # <<>> /\ Head(s) \in Whitespace THEN trimStart(Tail(s)) ELSE s

RECURSIVE trimEnd(_)
trimEnd(s) ==
    IF s # <<>> /\ s[Len(s)] \in Whitespace THEN trimEnd(SubSeq(s, 1, Len(s) - 1)) ELSE s

trim(s) == trimEnd(trimStart(s))

\* s.split('\n'): the pieces between the newlines (one piece, s, when there is none).
RECURSIVE split(_)
split(s) ==
    IF \E i \in 1..Len(s) : s[i] = Newline
    THEN LET k == CHOOSE i \in 1..Len(s) : s[i] = Newline /\ \A j \in 1..(i - 1) : s[j] # Newline
         IN <<SubSeq(s, 1, k - 1)>> \o split(SubSeq(s, k + 1, Len(s)))
    ELSE <<s>>

\* a.join(), with the default separator
RECURSIVE join_Comma(_)
join_Comma(a) ==
    IF a = <<>> THEN <<>>
    ELSE IF Len(a) = 1 THEN a[1]
    ELSE a[1] \o <<",">> \o join_Comma(Tail(a))

\* a.join('\n')
RECURSIVE join(_)
join(a) ==
    IF a = <<>> THEN <<>>
    ELSE IF Len(a) = 1 THEN a[1]
    ELSE a[1] \o <<Newline>> \o join(Tail(a))

\* The transform with the filter before the trim:
\* text.split('\n').filter((line) => line.length > 0).map((line) => line.trim())
Lines_FilterFirst(s) ==
    LET nonEmpty(line) == Len(line) > 0
        kept == SelectSeq(split(s), nonEmpty)
    IN [i \in 1..Len(kept) |-> trim(kept[i])]

\* text.split('\n').map((line) => line.trim()).filter((line) => line.length > 0)
Lines(s) ==
    LET trimmed == [i \in 1..Len(split(s)) |-> trim(split(s)[i])]
        nonEmpty(line) == Len(line) > 0
    IN SelectSeq(trimmed, nonEmpty)

DigitValue(ch) == CHOOSE d \in 0..9 : Digit(d) = ch

RECURSIVE DecimalValue(_)
DecimalValue(s) ==
    IF s = <<>> THEN 0
    ELSE 10 * DecimalValue(SubSeq(s, 1, Len(s) - 1)) + DigitValue(s[Len(s)])

RECURSIVE DigitPrefix(_)
DigitPrefix(s) ==
    IF s # <<>> /\ Head(s) \in Digits THEN <<Head(s)>> \o DigitPrefix(Tail(s)) ELSE <<>>

\* parseInt(s, 10): leading whitespace is skipped, then an optional sign, then
\* the longest run of digits; NaN when there is no digit there.
NaN == [nan |-> TRUE, n |-> 0]
Number(n) == [nan |-> FALSE, n |-> n]

parseInt(s) ==
    LET t == trimStart(s)
        signed == t # <<>> /\ Head(t) \in {"-", "+"}
        d == DigitPrefix(IF signed THEN Tail(t) ELSE t)
    IN IF d = <<>> THEN NaN
       ELSE IF signed /\ Head(t) = "-" THEN Number(0 - DecimalValue(d))
       ELSE Number(DecimalValue(d))

\* number || fallback: NaN and 0 are falsy.
NumberOr(p, fallback) == IF p.nan \/ p.n = 0 THEN fallback ELSE p.n

\* text || fallback: the empty string is falsy.
TextOr(s, fallback) == IF s = <<>> THEN fallback ELSE s

-----------------------------------------------------------------------------
(* storage.js, the synchronous pieces *)

\* AsyncStorage.getItem(key), then `json != null ? JSON.parse(json) : []`:
\* the body of the try of getFavorites / getMyRecipes.
ReadBody(key, ok) ==
    IF ~ok THEN Throw
    ELSE IF storage[key].kind = "absent" THEN Array(<<>>)
    ELSE IF storage[key].kind = "corrupt" THEN Throw
    ELSE Array(storage[key].value)

\* getFavorites: the catch returns [].
getFavorites(ok) ==
    IF ReadBody(FAVORITES_KEY, ok).t = "throw" THEN Array(<<>>)
    ELSE ReadBody(FAVORITES_KEY, ok)

\* getMyRecipes: the catch returns [].
getMyRecipes(ok) ==
    IF ReadBody(MY_RECIPES_KEY, ok).t = "throw" THEN Array(<<>>)
    ELSE ReadBody(MY_RECIPES_KEY, ok)

\* AsyncStorage.setItem(key, JSON.stringify(value)): the body of the try of
\* saveFavorites / saveMyRecipes.
WriteBody(ok) == IF ok THEN Undefined ELSE Throw

\* saveFavorites without its try/catch: a rejected setItem propagates.
saveFavorites_NoCatch(ok) == WriteBody(ok)

\* saveFavorites: the catch logs and falls through.
saveFavorites(ok) == IF WriteBody(ok).t = "throw" THEN Undefined ELSE WriteBody(ok)

\* saveMyRecipes: the catch logs and falls through.
saveMyRecipes(ok) == IF WriteBody(ok).t = "throw" THEN Undefined ELSE WriteBody(ok)

\* A setItem that merges the new elements into the stored array instead of
\* replacing the stored text.
StoreAfter_Merge(key, value, ok) ==
    LET old == IF storage[key].kind = "json" THEN storage[key].value ELSE <<>>
        fresh(x) == \A i \in 1..Len(old) : old[i] # x
    IN IF ok
       THEN [storage EXCEPT ![key] = JSONstringify(old \o SelectSeq(value, fresh))]
       ELSE storage

\* The store after setItem(key, JSON.stringify(value)) resolved or rejected.
StoreAfter(key, value, ok) ==
    IF ok THEN [storage EXCEPT ![key] = JSONstringify(value)] ELSE storage

\* toggleFavorite with unshift in place of push.
ToggleList_Unshift(favorites, recipeId) ==
    IF indexOf(favorites, recipeId) > -1
    THEN splice1(favorites, indexOf(favorites, recipeId))
    ELSE <<recipeId>> \o favorites

\* toggleFavorite that trusts its caller about membership and always pushes.
ToggleList_AlwaysPush(favorites, recipeId) == Append(favorites, recipeId)

\* toggleFavorite, between the two awaits: remove the id if present, else append.
ToggleList(favorites, recipeId) ==
    IF indexOf(favorites, recipeId) > -1
    THEN splice1(favorites, indexOf(favorites, recipeId))
    ELSE Append(favorites, recipeId)

\* addMyRecipe with the spread last: { id, category: 'myfood', ...recipe }
NewRecipe_SpreadLast(recipe, clock) ==
    Spread([id |-> UserPrefix \o toString(clock), category |-> MyFood], recipe)

\* addMyRecipe that only stamps the id: { ...recipe, id }
NewRecipe_IdOnly(recipe, clock) ==
    Spread(recipe, [id |-> UserPrefix \o toString(clock)])

\* addMyRecipe: { ...recipe, id: 'user_' + Date.now().toString(), category: 'myfood' }
NewRecipe(recipe, clock) ==
    Spread(recipe, [id |-> UserPrefix \o toString(clock), category |-> MyFood])

\* updateMyRecipe: findIndex((r) => r.id === updatedRecipe.id)
FindById(recipes, id) ==
    IF \E i \in 1..Len(recipes) : recipes[i].id = id
    THEN (CHOOSE i \in 1..Len(recipes) :
            recipes[i].id = id /\ \A j \in 1..(i - 1) : recipes[j].id # id) - 1
    ELSE -1

\* updateMyRecipe that replaces the record: recipes[index] = updatedRecipe
MergeAt_Replace(recipes, index, updatedRecipe) ==
    [recipes EXCEPT ![index + 1] = updatedRecipe]

\* updateMyRecipe: recipes[index] = { ...recipes[index], ...updatedRecipe }
MergeAt(recipes, index, updatedRecipe) ==
    [recipes EXCEPT ![index + 1] = Spread(recipes[index + 1], updatedRecipe)]

\* deleteMyRecipe with === in place of !==
DeleteFilter_KeepMatch(recipes, recipeId) ==
    LET keep(r) == r.id = recipeId IN SelectSeq(recipes, keep)

\* deleteMyRecipe: recipes.filter((r) => r.id !== recipeId)
DeleteFilter(recipes, recipeId) ==
    LET keep(r) == r.id # recipeId IN SelectSeq(recipes, keep)

-----------------------------------------------------------------------------
(* Inputs *)

\* Ids of catalog recipes: "1", "2", ...
CatalogIds == {toString(i) : i \in 1..MaxCatalog}

\* Ids addMyRecipe can generate within the clock's range, or generated one
\* millisecond before it in an earlier run of the app.
UserIds == {UserPrefix \o toString(t) : t \in (ClockStart - 1)..MaxClock}

Lunch == <<"l", "u", "n", "c", "h">>

\* Records handed to addMyRecipe: one as the Add form builds it (no id, no
\* category), one that carries an id and a category of its own.
AddInputs ==
    { [name |-> <<"A">>, calories |-> 100],
      [name |-> <<"B">>, calories |-> 0, id |-> <<"7">>, category |-> Lunch] }

\* Records handed to updateMyRecipe: an id and a subset of the fields.
UpdateInputs == { [id |-> i, calories |-> 200] : i \in UserIds \cup {<<"1">>} }

\* Arrays handed to saveFavorites / saveMyRecipes by a direct caller.
SaveFavoritesInputs == { <<>>, <<toString(1)>> }
SaveMyRecipesInputs == { <<>>, <<NewRecipe([name |-> <<"A">>, calories |-> 100], ClockStart)>> }

-----------------------------------------------------------------------------
(* Calls *)

Slots == 1..MaxCalls

\* A call: who awaits it, the function and its argument, where it is
\* suspended, what its read returned (got), the array it is about to write
\* (local), what it settled to (out) and what it logged with console.error.
\* `live` tells whether the screen that awaits it is still mounted.
Idle == [owner |-> "none", live |-> FALSE, op |-> "none", arg |-> <<>>, pc |-> "idle",
         got |-> <<>>, local |-> <<>>, out |-> Pending, errors |-> {}]

Started(owner, op, arg, pc, local) ==
    [owner |-> owner, live |-> TRUE, op |-> op, arg |-> arg, pc |-> pc,
     got |-> <<>>, local |-> local, out |-> Pending, errors |-> {}]

Free(c) == calls[c].pc \in {"idle", "done"}

\* A call is started in the lowest free slot.
Fresh(c) == Free(c) /\ \A d \in 1..(c - 1) : ~Free(d)

\* A caller outside the screens starts a call.
Begin(c, op, arg, pc, local) ==
    /\ Fresh(c)
    /\ calls' = [calls EXCEPT ![c] = Started("caller", op, arg, pc, local)]
    /\ UNCHANGED <<storage, now, nav, form, myRecipes, allRecipes, others, alerts>>

At(c, op, pc) == calls[c].op = op /\ calls[c].pc = pc

Log(settled, message) == IF settled.t = "throw" THEN {message} ELSE {}

\* The call has read, and now awaits its write of `local`.
Suspend(c, got, local, errors) ==
    /\ calls' = [calls EXCEPT ![c].pc = "write", ![c].got = got, ![c].local = local,
                              ![c].errors = calls[c].errors \cup errors]
    /\ UNCHANGED ui

ReadErrors(key, ok, message) == Log(ReadBody(key, ok), message)
WriteErrors(ok, message) == Log(WriteBody(ok), message)

-----------------------------------------------------------------------------
(* Screens: forms, dialogs, and what resumes when an awaited call settles *)

Breakfast == <<"b", "r", "e", "a", "k", "f", "a", "s", "t">>

\* data/mockData.js: the bundled catalog, ids "1", "2", ...
MOCK_RECIPES ==
    [i \in 1..MaxCatalog |->
        [id |-> toString(i), name |-> <<"R">> \o toString(i),
         category |-> IF i % 2 = 1 THEN Breakfast ELSE Lunch]]

\* MainFeedScreen: useState('all')
All == <<"a", "l", "l">>

\* data/mockData.js: the ids of CATEGORIES the model presses.
CategoryIds == {All, Breakfast, Lunch, MyFood}

\* filteredRecipes without the 'all' rule's exclusion: 'all' shows every recipe.
filteredRecipes_AllShowsAll ==
    LET selected(r) == r.category = selectedCategory
    IN IF selectedCategory = All THEN allRecipes ELSE SelectSeq(allRecipes, selected)

\* MainFeedScreen.filteredRecipes (useMemo over selectedCategory, allRecipes).
filteredRecipes ==
    LET notMine(r) == r.category # MyFood
        selected(r) == r.category = selectedCategory
    IN IF selectedCategory = All
       THEN SelectSeq(allRecipes, notMine)
       ELSE SelectSeq(allRecipes, selected)

\* a.includes(x)
includes(a, x) == \E i \in 1..Len(a) : a[i] = x

\* A loadFavorites that matches the favorite ids against the recipes' names.
FavRecipes_ByName(favoriteIds, userRecipes) ==
    LET favorite(r) == includes(favoriteIds, r.name)
    IN SelectSeq(MOCK_RECIPES \o userRecipes, favorite)

\* A loadFavorites that looks each favorite id up, in the order of the ids.
FavRecipes_InFavoriteOrder(favoriteIds, userRecipes) ==
    LET source == MOCK_RECIPES \o userRecipes
        known(id) == \E k \in 1..Len(source) : source[k].id = id
        found == SelectSeq(favoriteIds, known)
    IN [i \in 1..Len(found) |->
            source[CHOOSE k \in 1..Len(source) :
                        /\ source[k].id = found[i]
                        /\ \A j \in 1..(k - 1) : source[j].id # found[i]]]

\* FavoritesScreen.loadFavorites: allRecipes.filter((r) => favoriteIds.includes(r.id))
FavRecipes(favoriteIds, userRecipes) ==
    LET favorite(r) == includes(favoriteIds, r.id)
    IN SelectSeq(MOCK_RECIPES \o userRecipes, favorite)

\* No handleToggleFavorite has settled yet.
NoToggle == [n |-> 0, id |-> <<>>, updatedFavorites |-> <<>>, errors |-> {}, logged |-> {}]

PLACEHOLDER_IMAGE ==
    <<"https://images.unsplash.com/photo-1495521821757-a1efb6729352?w=400">>

\* The eight useState('') fields of the Add form.
BlankForm ==
    [name |-> <<>>, imageUrl |-> <<>>, prepTime |-> <<>>, servings |-> <<>>,
     calories |-> <<>>, difficulty |-> <<>>, ingredients |-> <<>>, instructions |-> <<>>]

\* AddRecipeScreen.handleSave: the record built from the form.
AddFormRecipe(f) ==
    [name |-> trim(f.name),
     image |-> TextOr(trim(f.imageUrl), PLACEHOLDER_IMAGE),
     prepTime |-> TextOr(trim(f.prepTime), <<"N", "/", "A">>),
     servings |-> NumberOr(parseInt(f.servings), 1),
     calories |-> NumberOr(parseInt(f.calories), 0),
     difficulty |-> TextOr(trim(f.difficulty), <<"E", "a", "s", "y">>),
     ingredients |-> Lines(f.ingredients),
     instructions |-> Lines(f.instructions)]

Has(recipe, field) == field \in DOMAIN recipe

\* recipe.field || ''
FieldOr(recipe, field) == IF Has(recipe, field) THEN recipe[field] ELSE <<>>

\* EditRecipeScreen: the useState initial values, from route.params.recipe.
EditFormOf(recipe) ==
    [name |-> FieldOr(recipe, "name"),
     imageUrl |-> FieldOr(recipe, "image"),
     prepTime |-> FieldOr(recipe, "prepTime"),
     servings |-> IF Has(recipe, "servings") /\ recipe.servings # 0
                  THEN numberToString(recipe.servings) ELSE <<>>,
     calories |-> IF Has(recipe, "calories") /\ recipe.calories # 0
                  THEN numberToString(recipe.calories) ELSE <<>>,
     difficulty |-> FieldOr(recipe, "difficulty"),
     ingredients |-> IF Has(recipe, "ingredients") THEN join(recipe.ingredients) ELSE <<>>,
     instructions |-> IF Has(recipe, "instructions") THEN join(recipe.instructions) ELSE <<>>]

\* An Edit handleSave that falls back to the placeholder image as the Add form does.
EditFormRecipe_Placeholder(f, recipe) ==
    [id |-> recipe.id,
     name |-> trim(f.name),
     image |-> TextOr(trim(f.imageUrl), PLACEHOLDER_IMAGE),
     prepTime |-> TextOr(trim(f.prepTime), <<"N", "/", "A">>),
     servings |-> NumberOr(parseInt(f.servings), 1),
     calories |-> NumberOr(parseInt(f.calories), 0),
     difficulty |-> TextOr(trim(f.difficulty), <<"E", "a", "s", "y">>),
     category |-> MyFood,
     ingredients |-> Lines(f.ingredients),
     instructions |-> Lines(f.instructions)]

\* EditRecipeScreen.handleSave: the record built from the form and the recipe
\* the screen was opened on.
EditFormRecipe(f, recipe) ==
    [id |-> recipe.id,
     name |-> trim(f.name),
     image |-> TextOr(trim(f.imageUrl), FieldOr(recipe, "image")),
     prepTime |-> TextOr(trim(f.prepTime), <<"N", "/", "A">>),
     servings |-> NumberOr(parseInt(f.servings), 1),
     calories |-> NumberOr(parseInt(f.calories), 0),
     difficulty |-> TextOr(trim(f.difficulty), <<"E", "a", "s", "y">>),
     category |-> MyFood,
     ingredients |-> Lines(f.ingredients),
     instructions |-> Lines(f.instructions)]

\* Alert.alert(title, message, buttons) of a screen; `live` tells whether that
\* screen is still mounted, recipeId is the row a delete dialog is about.
Alert(title, message, screen, live, recipeId) ==
    [title |-> title, message |-> message, screen |-> screen, live |-> live,
     recipeId |-> recipeId]

MissingNameAlert(screen) ==
    Alert("Missing Information", "Please enter a recipe name.", screen, TRUE, <<>>)

\* AddRecipeScreen.handleSave, after `await addMyRecipe(newRecipe)`.
AddSaveAlert(saved, live) ==
    IF saved.t = "object"
    THEN Alert("Success", "Recipe saved successfully!", "AddRecipe", live, <<>>)
    ELSE Alert("Error", "Failed to save recipe. Please try again.", "AddRecipe", live, <<>>)

\* EditRecipeScreen.handleSave, after `await updateMyRecipe(updatedRecipe)`.
EditSaveAlert(live) ==
    Alert("Success", "Recipe updated successfully!", "EditRecipe", live, <<>>)

\* The code after the await of the settled call `done` of slot c.
Resume(c, done) ==
    CASE done.owner = "caller" ->
            /\ calls' = [calls EXCEPT ![c] = done]
            /\ UNCHANGED ui
      [] done.owner = "MainFeed.loadRecipes" ->
            \* setAllRecipes([...MOCK_RECIPES, ...userRecipes])
            /\ calls' = [calls EXCEPT ![c] = Idle]
            /\ allRecipes' = MOCK_RECIPES \o done.out.v
            /\ UNCHANGED <<nav, form, myRecipes, alerts, others>>
      [] done.owner = "MyRecipes.loadRecipes" ->
            \* setMyRecipes(recipes)
            /\ calls' = [calls EXCEPT ![c] = Idle]
            /\ myRecipes' = IF done.live THEN done.out.v ELSE myRecipes
            /\ UNCHANGED <<nav, form, allRecipes, others, alerts>>
      [] done.owner = "MyRecipes.handleDelete.refetch" ->
            \* setMyRecipes(updated)
            /\ calls' = [calls EXCEPT ![c] = done]
            /\ myRecipes' = IF done.live THEN done.out.v ELSE myRecipes
            /\ UNCHANGED <<nav, form, allRecipes, others, alerts>>
      [] done.owner = "MyRecipes.handleDelete" ->
            \* const updated = await getMyRecipes();
            \* History kept with the refetch: the deleted id, the failures that
            \* deleteMyRecipe logged, and the text it left persisted.
            /\ calls' = [calls EXCEPT ![c] =
                            [Started("MyRecipes.handleDelete.refetch", "getMyRecipes",
                                     done.arg, "read", storage'[MY_RECIPES_KEY])
                                EXCEPT !.live = done.live, !.errors = done.errors]]
            /\ UNCHANGED ui
      [] done.owner = "AddRecipe.handleSave" ->
            /\ calls' = [calls EXCEPT ![c] = Idle]
            /\ alerts' = Append(alerts, AddSaveAlert(done.out, done.live))
            /\ UNCHANGED <<nav, form, myRecipes, allRecipes, others>>
      [] done.owner = "EditRecipe.handleSave" ->
            /\ calls' = [calls EXCEPT ![c] = Idle]
            /\ alerts' = Append(alerts, EditSaveAlert(done.live))
            /\ UNCHANGED <<nav, form, myRecipes, allRecipes, others>>
      [] done.owner = "RecipeDetail.checkFavorite" ->
            \* setIsFavorited(favorites.includes(recipe.id))
            /\ calls' = [calls EXCEPT ![c] = Idle]
            /\ isFavorited' = IF done.live THEN includes(done.out.v, done.arg)
                              ELSE isFavorited
            /\ lastToggle' = [lastToggle EXCEPT !.logged = @ \cup done.errors]
            /\ UNCHANGED <<nav, form, myRecipes, allRecipes, alerts, selectedCategory,
                           favoriteRecipes>>
      [] done.owner = "RecipeDetail.handleToggleFavorite" ->
            \* setIsFavorited(updatedFavorites.includes(recipe.id))
            /\ calls' = [calls EXCEPT ![c] = Idle]
            /\ isFavorited' = IF done.live THEN includes(done.out.v, done.arg)
                              ELSE isFavorited
            /\ lastToggle' = [n |-> lastToggle.n + 1, id |-> done.arg,
                              updatedFavorites |-> done.out.v, errors |-> done.errors,
                              logged |-> lastToggle.logged \cup done.errors]
            /\ UNCHANGED <<nav, form, myRecipes, allRecipes, alerts, selectedCategory,
                           favoriteRecipes>>
      [] done.owner = "Favorites.loadFavorites" ->
            \* const userRecipes = await getMyRecipes();
            /\ calls' = [calls EXCEPT ![c] =
                            [Started("Favorites.loadFavorites.userRecipes", "getMyRecipes",
                                     done.out.v, "read", calls[c].local)
                                EXCEPT !.live = done.live, !.errors = done.errors]]
            /\ UNCHANGED ui
      [] done.owner = "Favorites.loadFavorites.userRecipes" ->
            \* setFavoriteRecipes(favRecipes)
            /\ calls' = [calls EXCEPT ![c] = done]
            /\ favoriteRecipes' = IF done.live THEN FavRecipes(done.arg, done.out.v)
                                  ELSE favoriteRecipes
            /\ UNCHANGED <<nav, form, myRecipes, allRecipes, alerts, selectedCategory,
                           isFavorited, lastToggle>>

\* The call settles: the awaiting caller resumes with `out`.
Finish(c, got, out, errors) ==
    Resume(c, [calls[c] EXCEPT !.pc = "done", !.got = got, !.local = <<>>, !.out = out,
                               !.errors = calls[c].errors \cup errors])

-----------------------------------------------------------------------------
(* storage.js: favorites *)

getFavoritesCall(c) == Begin(c, "getFavorites", <<>>, "read", <<>>)

getFavoritesDone(c) ==
    /\ At(c, "getFavorites", "read")
    /\ \E ok \in BOOLEAN :
        Finish(c, <<>>, getFavorites(ok),
               ReadErrors(FAVORITES_KEY, ok, "Error reading favorites:"))
    /\ UNCHANGED <<storage, now, budget>>

saveFavoritesCall(c, favorites) == Begin(c, "saveFavorites", favorites, "write", favorites)

saveFavoritesDone(c) ==
    /\ At(c, "saveFavorites", "write")
    /\ \E ok \in BOOLEAN :
        /\ storage' = StoreAfter(FAVORITES_KEY, calls[c].local, ok)
        /\ Finish(c, <<>>, saveFavorites(ok), WriteErrors(ok, "Error saving favorites:"))
    /\ UNCHANGED <<now, budget>>

toggleFavoriteCall(c, recipeId) == Begin(c, "toggleFavorite", recipeId, "read", <<>>)

\* const favorites = await getFavorites(); splice or push; saveFavorites(favorites)
toggleFavoriteRead(c) ==
    /\ At(c, "toggleFavorite", "read")
    /\ \E ok \in BOOLEAN :
        LET got == getFavorites(ok)
            read == ReadErrors(FAVORITES_KEY, ok, "Error reading favorites:")
        IN IF got.t = "throw"
           THEN Finish(c, <<>>, Array(<<>>), read \cup {"Error toggling favorite:"})
           ELSE Suspend(c, got.v, ToggleList(got.v, calls[c].arg), read)
    /\ UNCHANGED <<storage, now, budget>>

\* A toggleFavorite that returns the array as it was read.
toggleFavoriteWrite_ReturnsRead(c) ==
    /\ At(c, "toggleFavorite", "write")
    /\ \E ok \in BOOLEAN :
        LET saved == saveFavorites(ok)
            wrote == WriteErrors(ok, "Error saving favorites:")
        IN /\ storage' = StoreAfter(FAVORITES_KEY, calls[c].local, ok)
           /\ IF saved.t = "throw"
              THEN Finish(c, calls[c].got, Array(<<>>),
                          wrote \cup {"Error toggling favorite:"})
              ELSE Finish(c, calls[c].got, Array(calls[c].got), wrote)
    /\ UNCHANGED <<now, budget>>

\* await saveFavorites(favorites); return favorites;  (catch: return [])
toggleFavoriteWrite(c) ==
    /\ At(c, "toggleFavorite", "write")
    /\ \E ok \in BOOLEAN :
        LET saved == saveFavorites(ok)
            wrote == WriteErrors(ok, "Error saving favorites:")
        IN /\ storage' = StoreAfter(FAVORITES_KEY, calls[c].local, ok)
           /\ IF saved.t = "throw"
              THEN Finish(c, calls[c].got, Array(<<>>),
                          wrote \cup {"Error toggling favorite:"})
              ELSE Finish(c, calls[c].got, Array(calls[c].local), wrote)
    /\ UNCHANGED <<now, budget>>

-----------------------------------------------------------------------------
(* storage.js: my recipes *)

getMyRecipesCall(c) == Begin(c, "getMyRecipes", <<>>, "read", <<>>)

getMyRecipesDone(c) ==
    /\ At(c, "getMyRecipes", "read")
    /\ \E ok \in BOOLEAN :
        Finish(c, <<>>, getMyRecipes(ok),
               ReadErrors(MY_RECIPES_KEY, ok, "Error reading my recipes:"))
    /\ UNCHANGED <<storage, now, budget>>

saveMyRecipesCall(c, recipes) == Begin(c, "saveMyRecipes", recipes, "write", recipes)

saveMyRecipesDone(c) ==
    /\ At(c, "saveMyRecipes", "write")
    /\ \E ok \in BOOLEAN :
        /\ storage' = StoreAfter(MY_RECIPES_KEY, calls[c].local, ok)
        /\ Finish(c, <<>>, saveMyRecipes(ok), WriteErrors(ok, "Error saving my recipes:"))
    /\ UNCHANGED <<now, budget>>

\* What a key holds, read as a collection (an absent key is the empty one).
Persisted(key) == IF storage[key].kind = "json" THEN storage[key].value ELSE <<>>

PendingAdds == Cardinality({c \in Slots : calls[c].op = "addMyRecipe" /\ ~Free(c)})

\* The collection is kept within MaxRecipes records.
addMyRecipeCall(c, recipe) ==
    /\ Len(Persisted(MY_RECIPES_KEY)) + PendingAdds < MaxRecipes
    /\ Begin(c, "addMyRecipe", recipe, "read", <<>>)

\* const recipes = await getMyRecipes(); newRecipe = {...}; recipes.push(newRecipe);
\* saveMyRecipes(recipes)
addMyRecipeRead(c) ==
    /\ At(c, "addMyRecipe", "read")
    /\ \E ok \in BOOLEAN :
        LET got == getMyRecipes(ok)
            read == ReadErrors(MY_RECIPES_KEY, ok, "Error reading my recipes:")
        IN IF got.t = "throw"
           THEN Finish(c, <<>>, Null, read \cup {"Error adding recipe:"})
           ELSE Suspend(c, got.v, Append(got.v, NewRecipe(calls[c].arg, now)), read)
    /\ UNCHANGED <<storage, now, budget>>

\* await saveMyRecipes(recipes); return newRecipe;  (catch: return null)
addMyRecipeWrite(c) ==
    /\ At(c, "addMyRecipe", "write")
    /\ \E ok \in BOOLEAN :
        LET saved == saveMyRecipes(ok)
            wrote == WriteErrors(ok, "Error saving my recipes:")
        IN /\ storage' = StoreAfter(MY_RECIPES_KEY, calls[c].local, ok)
           /\ IF saved.t = "throw"
              THEN Finish(c, calls[c].got, Null, wrote \cup {"Error adding recipe:"})
              ELSE Finish(c, calls[c].got,
                          Object(calls[c].local[Len(calls[c].local)]), wrote)
    /\ UNCHANGED <<now, budget>>

updateMyRecipeCall(c, updatedRecipe) ==
    Begin(c, "updateMyRecipe", updatedRecipe, "read", <<>>)

\* An updateMyRecipe that pushes the record when no stored id matches.
updateMyRecipeRead_Upsert(c) ==
    /\ At(c, "updateMyRecipe", "read")
    /\ \E ok \in BOOLEAN :
        LET got == getMyRecipes(ok)
            read == ReadErrors(MY_RECIPES_KEY, ok, "Error reading my recipes:")
            index == FindById(got.v, calls[c].arg.id)
        IN IF got.t = "throw"
           THEN Finish(c, <<>>, Undefined, read \cup {"Error updating recipe:"})
           ELSE IF index > -1
           THEN Suspend(c, got.v, MergeAt(got.v, index, calls[c].arg), read)
           ELSE Suspend(c, got.v, Append(got.v, calls[c].arg), read)
    /\ UNCHANGED <<storage, now, budget>>

\* const recipes = await getMyRecipes(); index = findIndex(...);
\* if (index > -1) { recipes[index] = {...}; saveMyRecipes(recipes) }
updateMyRecipeRead(c) ==
    /\ At(c, "updateMyRecipe", "read")
    /\ \E ok \in BOOLEAN :
        LET got == getMyRecipes(ok)
            read == ReadErrors(MY_RECIPES_KEY, ok, "Error reading my recipes:")
            index == FindById(got.v, calls[c].arg.id)
        IN IF got.t = "throw"
           THEN Finish(c, <<>>, Undefined, read \cup {"Error updating recipe:"})
           ELSE IF index > -1
           THEN Suspend(c, got.v, MergeAt(got.v, index, calls[c].arg), read)
           ELSE Finish(c, got.v, Undefined, read)
    /\ UNCHANGED <<storage, now, budget>>

\* await saveMyRecipes(recipes);
updateMyRecipeWrite(c) ==
    /\ At(c, "updateMyRecipe", "write")
    /\ \E ok \in BOOLEAN :
        LET saved == saveMyRecipes(ok)
            wrote == WriteErrors(ok, "Error saving my recipes:")
        IN /\ storage' = StoreAfter(MY_RECIPES_KEY, calls[c].local, ok)
           /\ Finish(c, calls[c].got, Undefined,
                     wrote \cup Log(saved, "Error updating recipe:"))
    /\ UNCHANGED <<now, budget>>

deleteMyRecipeCall(c, recipeId) == Begin(c, "deleteMyRecipe", recipeId, "read", <<>>)

\* const recipes = await getMyRecipes(); filtered = recipes.filter(...);
\* saveMyRecipes(filtered)
deleteMyRecipeRead(c) ==
    /\ At(c, "deleteMyRecipe", "read")
    /\ \E ok \in BOOLEAN :
        LET got == getMyRecipes(ok)
            read == ReadErrors(MY_RECIPES_KEY, ok, "Error reading my recipes:")
        IN IF got.t = "throw"
           THEN Finish(c, <<>>, Undefined, read \cup {"Error deleting recipe:"})
           ELSE Suspend(c, got.v, DeleteFilter(got.v, calls[c].arg), read)
    /\ UNCHANGED <<storage, now, budget>>

\* A deleteMyRecipe that also takes the id out of the favorites.
deleteMyRecipeWrite_Cascade(c) ==
    /\ At(c, "deleteMyRecipe", "write")
    /\ \E ok \in BOOLEAN :
        LET saved == saveMyRecipes(ok)
            wrote == WriteErrors(ok, "Error saving my recipes:")
            kept(id) == id # calls[c].arg
            favorites == IF storage[FAVORITES_KEY].kind = "json"
                         THEN storage[FAVORITES_KEY].value ELSE <<>>
        IN /\ storage' = [StoreAfter(MY_RECIPES_KEY, calls[c].local, ok)
                            EXCEPT ![FAVORITES_KEY] =
                                JSONstringify(SelectSeq(favorites, kept))]
           /\ Finish(c, calls[c].got, Undefined,
                     wrote \cup Log(saved, "Error deleting recipe:"))
    /\ UNCHANGED <<now, budget>>

\* await saveMyRecipes(filtered);
deleteMyRecipeWrite(c) ==
    /\ At(c, "deleteMyRecipe", "write")
    /\ \E ok \in BOOLEAN :
        LET saved == saveMyRecipes(ok)
            wrote == WriteErrors(ok, "Error saving my recipes:")
        IN /\ storage' = StoreAfter(MY_RECIPES_KEY, calls[c].local, ok)
           /\ Finish(c, calls[c].got, Undefined,
                     wrote \cup Log(saved, "Error deleting recipe:"))
    /\ UNCHANGED <<now, budget>>

\* Time passes.
Tick ==
    /\ now < MaxClock
    /\ now' = now + 1
    /\ UNCHANGED <<storage, calls, budget, nav, form, myRecipes, allRecipes, others, alerts>>

-----------------------------------------------------------------------------
(* Screens: navigation and the handlers of MyRecipes, AddRecipe, EditRecipe *)

\* What the user types into the form: a full form, a form whose name is only
\* whitespace, and one with padded and unparseable entries.
FormInputs ==
    { [BlankForm EXCEPT !.name = <<"A">>, !.servings = <<"2">>,
                        !.calories = <<"1", "0", "0">>,
                        !.ingredients = <<"x", Newline, Newline, " ", "y">>],
      [BlankForm EXCEPT !.name = <<" ">>, !.prepTime = <<"9">>],
      [BlankForm EXCEPT !.name = <<" ", "B", " ">>, !.imageUrl = <<"u">>,
                        !.prepTime = <<"5">>, !.servings = <<"a">>,
                        !.calories = <<"0">>, !.difficulty = <<"H">>,
                        !.instructions = <<"s">>] }

Route(name, recipe) == [name |-> name, recipe |-> recipe]

Top == nav[Len(nav)]
OnTop(name) == Top.name = name

\* A dialog is modal: the screens take no press while one is shown.
Quiet == alerts = <<>>

OwnerScreen(owner) ==
    CASE owner \in {"MyRecipes.loadRecipes", "MyRecipes.handleDelete",
                    "MyRecipes.handleDelete.refetch"} -> "MyRecipes"
      [] owner = "AddRecipe.handleSave" -> "AddRecipe"
      [] owner = "EditRecipe.handleSave" -> "EditRecipe"
      [] owner = "MainFeed.loadRecipes" -> "MainFeed"
      [] owner \in {"RecipeDetail.checkFavorite",
                    "RecipeDetail.handleToggleFavorite"} -> "RecipeDetail"
      [] owner \in {"Favorites.loadFavorites",
                    "Favorites.loadFavorites.userRecipes"} -> "Favorites"
      [] OTHER -> "none"

\* useFocusEffect of MainFeedScreen and of MyRecipesScreen: loadRecipes().
FocusCall(name) ==
    IF name = "MyRecipes"
    THEN Started("MyRecipes.loadRecipes", "getMyRecipes", <<>>, "read", <<>>)
    ELSE Started("MainFeed.loadRecipes", "getMyRecipes", <<>>, "read", <<>>)

\* A toggleFavorite call is between its start and its return.
TogglePending ==
    \E c \in Slots : calls[c].op = "toggleFavorite" /\ calls[c].pc \in {"read", "write"}

\* History kept with a loadFavorites: the toggle that had settled, and whether
\* one was pending, when the focus effect ran.
Settled == [toggle |-> lastToggle, pending |-> TogglePending]

\* useFocusEffect of the screen of `route`; RecipeDetailScreen's returns at once
\* when the recipe has no id.
FocusOf(route) ==
    CASE route.name = "RecipeDetail" ->
            IF FieldOr(route.recipe, "id") = <<>> THEN Idle
            ELSE Started("RecipeDetail.checkFavorite", "getFavorites", route.recipe.id,
                         "read", <<>>)
      [] route.name = "Favorites" ->
            Started("Favorites.loadFavorites", "getFavorites", <<>>, "read", Settled)
      [] OTHER -> FocusCall(route.name)

\* The screen of `route` comes into focus and runs its focus effect; cs are the
\* calls as the navigation leaves them.
Focus(route, cs) ==
    IF FocusOf(route) = Idle
    THEN calls' = cs /\ UNCHANGED budget
    ELSE /\ \E c \in Slots :
            /\ Fresh(c)
            /\ calls' = [cs EXCEPT ![c] = FocusOf(route)]
         /\ budget > 0 /\ budget' = budget - 1

\* The screens `gone` are unmounted: what their pending calls and their dialogs
\* do afterwards no longer reaches a mounted screen.
Orphaned(gone) ==
    [c \in Slots |-> IF OwnerScreen(calls[c].owner) \in gone
                     THEN [calls[c] EXCEPT !.live = FALSE] ELSE calls[c]]

Stale(shown, gone) ==
    [i \in 1..Len(shown) |-> IF shown[i].screen \in gone
                             THEN [shown[i] EXCEPT !.live = FALSE] ELSE shown[i]]

Without(shown, k) == SubSeq(shown, 1, k - 1) \o SubSeq(shown, k + 1, Len(shown))

\* The stack is cut to its first k screens; the screen that comes into focus
\* runs its focus effect; `shown` are the dialogs left on display.
PopTo(k, shown) ==
    LET gone == {nav[i].name : i \in (k + 1)..Len(nav)}
    IN /\ nav' = SubSeq(nav, 1, k)
       /\ form' = BlankForm
       /\ myRecipes' = IF "MyRecipes" \in gone THEN <<>> ELSE myRecipes
       /\ alerts' = Stale(shown, gone)
       /\ isFavorited' = IF "RecipeDetail" \in gone THEN FALSE ELSE isFavorited
       /\ favoriteRecipes' = IF "Favorites" \in gone THEN <<>> ELSE favoriteRecipes
       /\ Focus(nav[k], Orphaned(gone))
       /\ UNCHANGED <<storage, now, allRecipes, selectedCategory, lastToggle>>

\* The header's back control.
HeaderBack ==
    /\ Quiet
    /\ Len(nav) > 1
    /\ PopTo(Len(nav) - 1, alerts)

\* A back button of the Detail screen that runs navigation.popToTop().
DetailBack_PopToTop ==
    /\ Quiet
    /\ OnTop("RecipeDetail")
    /\ PopTo(1, alerts)

\* RecipeDetailScreen, the overlay back button: navigation.goBack().
DetailBack ==
    /\ Quiet
    /\ OnTop("RecipeDetail")
    /\ PopTo(Len(nav) - 1, alerts)

\* handleCategoryPress without the 'myfood' special case: every pill filters.
handleCategoryPress_AlwaysSelect(categoryId) ==
    /\ Quiet
    /\ OnTop("MainFeed")
    /\ selectedCategory' = categoryId
    /\ UNCHANGED <<storage, calls, now, budget, nav, form, myRecipes, allRecipes, alerts,
                   isFavorited, favoriteRecipes, lastToggle>>

\* MainFeedScreen.handleCategoryPress(categoryId): 'myfood' navigates to
\* MyRecipes, any other id becomes the selected category.
handleCategoryPress(categoryId) ==
    /\ Quiet
    /\ OnTop("MainFeed")
    /\ IF categoryId = MyFood
       THEN /\ nav' = Append(nav, Route("MyRecipes", <<>>))
            /\ myRecipes' = <<>>
            /\ Focus(Route("MyRecipes", <<>>), calls)
            /\ UNCHANGED selectedCategory
       ELSE /\ selectedCategory' = categoryId
            /\ UNCHANGED <<nav, myRecipes, calls, budget>>
    /\ UNCHANGED <<storage, now, form, allRecipes, alerts, isFavorited, favoriteRecipes,
                   lastToggle>>

\* The "My Food" pill.
PressMyFood == handleCategoryPress(MyFood)

\* A card is pressed: navigation.navigate('RecipeDetail', { recipe: item }).
OpenDetail(item) ==
    /\ nav' = Append(nav, Route("RecipeDetail", item))
    /\ isFavorited' = FALSE
    /\ Focus(Route("RecipeDetail", item), calls)
    /\ UNCHANGED <<storage, now, form, myRecipes, allRecipes, alerts, selectedCategory,
                   favoriteRecipes, lastToggle>>

\* MainFeedScreen.renderRecipeItem onPress.
PressRecipe(i) ==
    /\ Quiet
    /\ OnTop("MainFeed")
    /\ i \in 1..Len(filteredRecipes)
    /\ OpenDetail(filteredRecipes[i])

\* FavoritesScreen.renderItem onPress.
PressFavoriteRecipe(i) ==
    /\ Quiet
    /\ OnTop("Favorites")
    /\ i \in 1..Len(favoriteRecipes)
    /\ OpenDetail(favoriteRecipes[i])

\* MyRecipesScreen.renderItem onPress.
PressMyRecipe(i) ==
    /\ Quiet
    /\ OnTop("MyRecipes")
    /\ i \in 1..Len(myRecipes)
    /\ OpenDetail(myRecipes[i])

\* MainFeedScreen, the heart of the title bar: navigation.navigate('Favorites').
PressFavorites ==
    /\ Quiet
    /\ OnTop("MainFeed")
    /\ nav' = Append(nav, Route("Favorites", <<>>))
    /\ favoriteRecipes' = <<>>
    /\ Focus(Route("Favorites", <<>>), calls)
    /\ UNCHANGED <<storage, now, form, myRecipes, allRecipes, alerts, selectedCategory,
                   isFavorited, lastToggle>>

\* RecipeDetailScreen.handleToggleFavorite, up to `await toggleFavorite(recipe.id)`.
handleToggleFavorite ==
    /\ Quiet
    /\ OnTop("RecipeDetail")
    /\ IF FieldOr(Top.recipe, "id") = <<>>
       THEN UNCHANGED <<calls, budget>>
       ELSE /\ \E c \in Slots :
                /\ Fresh(c)
                /\ calls' = [calls EXCEPT ![c] =
                                Started("RecipeDetail.handleToggleFavorite",
                                        "toggleFavorite", Top.recipe.id, "read", <<>>)]
            /\ budget > 0 /\ budget' = budget - 1
    /\ UNCHANGED <<storage, now, ui>>

\* MyRecipesScreen headerRight: navigation.navigate('AddRecipe').
PressAdd ==
    /\ Quiet
    /\ OnTop("MyRecipes")
    /\ nav' = Append(nav, Route("AddRecipe", <<>>))
    /\ form' = BlankForm
    /\ UNCHANGED <<storage, calls, now, budget, myRecipes, allRecipes, others, alerts>>

\* MyRecipesScreen, the row's Edit button: navigate('EditRecipe', { recipe: item }).
PressEdit(i) ==
    /\ Quiet
    /\ OnTop("MyRecipes")
    /\ i \in 1..Len(myRecipes)
    /\ nav' = Append(nav, Route("EditRecipe", myRecipes[i]))
    /\ form' = EditFormOf(myRecipes[i])
    /\ UNCHANGED <<storage, calls, now, budget, myRecipes, allRecipes, others, alerts>>

\* A handleDelete that calls deleteMyRecipe at once, without the dialog.
PressDelete_NoConfirm(i) ==
    /\ Quiet
    /\ OnTop("MyRecipes")
    /\ i \in 1..Len(myRecipes)
    /\ \E c \in Slots :
        /\ Fresh(c)
        /\ calls' = [calls EXCEPT ![c] =
                        Started("MyRecipes.handleDelete", "deleteMyRecipe",
                                myRecipes[i].id, "read", <<>>)]
    /\ budget > 0 /\ budget' = budget - 1
    /\ UNCHANGED <<storage, now, nav, form, myRecipes, allRecipes, others, alerts>>

\* MyRecipesScreen.handleDelete(item.id, item.name): the confirmation dialog.
PressDelete(i) ==
    /\ Quiet
    /\ OnTop("MyRecipes")
    /\ i \in 1..Len(myRecipes)
    /\ alerts' = Append(alerts, Alert("Delete Recipe", "Are you sure you want to delete?",
                                      "MyRecipes", TRUE, myRecipes[i].id))
    /\ UNCHANGED <<storage, calls, now, budget, nav, form, myRecipes, allRecipes, others>>

\* The dialog's Cancel button.
AnswerCancel(k) ==
    /\ k \in 1..Len(alerts)
    /\ alerts[k].title = "Delete Recipe"
    /\ alerts' = Without(alerts, k)
    /\ UNCHANGED <<storage, calls, now, budget, nav, form, myRecipes, allRecipes, others>>

\* The dialog's Delete button: await deleteMyRecipe(recipeId); ...
AnswerDelete(k) ==
    /\ k \in 1..Len(alerts)
    /\ alerts[k].title = "Delete Recipe"
    /\ alerts' = Without(alerts, k)
    /\ \E c \in Slots :
        /\ Fresh(c)
        /\ calls' = [calls EXCEPT ![c] =
                        [Started("MyRecipes.handleDelete", "deleteMyRecipe",
                                 alerts[k].recipeId, "read", <<>>)
                            EXCEPT !.live = alerts[k].live]]
    /\ budget > 0 /\ budget' = budget - 1
    /\ UNCHANGED <<storage, now, nav, form, myRecipes, allRecipes, others>>

\* The user edits the fields of the form (onChangeText).
TypeForm(f) ==
    /\ Quiet
    /\ OnTop("AddRecipe") \/ OnTop("EditRecipe")
    /\ form' = f
    /\ UNCHANGED <<storage, calls, now, budget, nav, myRecipes, allRecipes, others, alerts>>

\* AddRecipeScreen.handleSave testing `!name` in place of `!name.trim()`.
AddSave_NoTrim ==
    /\ Quiet
    /\ OnTop("AddRecipe")
    /\ IF form.name = <<>>
       THEN /\ alerts' = Append(alerts, MissingNameAlert("AddRecipe"))
            /\ UNCHANGED <<calls, budget>>
       ELSE /\ Len(Persisted(MY_RECIPES_KEY)) + PendingAdds < MaxRecipes
            /\ \E c \in Slots :
                /\ Fresh(c)
                /\ calls' = [calls EXCEPT ![c] =
                                Started("AddRecipe.handleSave", "addMyRecipe",
                                        AddFormRecipe(form), "read", <<>>)]
            /\ budget > 0 /\ budget' = budget - 1
            /\ UNCHANGED alerts
    /\ UNCHANGED <<storage, now, nav, form, myRecipes, allRecipes, others>>

\* AddRecipeScreen.handleSave, up to `await addMyRecipe(newRecipe)`.
AddSave ==
    /\ Quiet
    /\ OnTop("AddRecipe")
    /\ IF trim(form.name) = <<>>
       THEN /\ alerts' = Append(alerts, MissingNameAlert("AddRecipe"))
            /\ UNCHANGED <<calls, budget>>
       ELSE /\ Len(Persisted(MY_RECIPES_KEY)) + PendingAdds < MaxRecipes
            /\ \E c \in Slots :
                /\ Fresh(c)
                /\ calls' = [calls EXCEPT ![c] =
                                Started("AddRecipe.handleSave", "addMyRecipe",
                                        AddFormRecipe(form), "read", <<>>)]
            /\ budget > 0 /\ budget' = budget - 1
            /\ UNCHANGED alerts
    /\ UNCHANGED <<storage, now, nav, form, myRecipes, allRecipes, others>>

\* EditRecipeScreen.handleSave, up to `await updateMyRecipe(updatedRecipe)`.
EditSave ==
    /\ Quiet
    /\ OnTop("EditRecipe")
    /\ IF trim(form.name) = <<>>
       THEN /\ alerts' = Append(alerts, MissingNameAlert("EditRecipe"))
            /\ UNCHANGED <<calls, budget>>
       ELSE /\ \E c \in Slots :
                /\ Fresh(c)
                /\ calls' = [calls EXCEPT ![c] =
                                Started("EditRecipe.handleSave", "updateMyRecipe",
                                        EditFormRecipe(form, Top.recipe), "read", <<>>)]
            /\ budget > 0 /\ budget' = budget - 1
            /\ UNCHANGED alerts
    /\ UNCHANGED <<storage, now, nav, form, myRecipes, allRecipes, others>>

\* A Success dialog whose OK button runs navigation.popToTop().
Depth_PopToTop(screen) == 2

Depth(screen) == CHOOSE i \in 1..Len(nav) : nav[i].name = screen

\* The OK button of a Success, Error or Missing Information dialog; the Success
\* dialogs' OK runs navigation.goBack() of the screen that showed it.
AnswerOK(k) ==
    /\ k \in 1..Len(alerts)
    /\ alerts[k].title # "Delete Recipe"
    /\ IF alerts[k].title = "Success" /\ alerts[k].live
       THEN PopTo(Depth(alerts[k].screen) - 1, Without(alerts, k))
       ELSE /\ alerts' = Without(alerts, k)
            /\ UNCHANGED <<storage, calls, now, budget, nav, form, myRecipes, allRecipes, others>>

-----------------------------------------------------------------------------
(* Specifications *)

\* The resumptions of the favorites functions, and of the my-recipes functions.
FavSteps ==
    \/ \E c \in Slots : getFavoritesDone(c)
    \/ \E c \in Slots : toggleFavoriteRead(c)
    \/ \E c \in Slots : toggleFavoriteWrite(c)

RecSteps ==
    \/ \E c \in Slots : getMyRecipesDone(c)
    \/ \E c \in Slots : addMyRecipeRead(c)
    \/ \E c \in Slots : addMyRecipeWrite(c)
    \/ \E c \in Slots : updateMyRecipeRead(c)
    \/ \E c \in Slots : updateMyRecipeWrite(c)
    \/ \E c \in Slots : deleteMyRecipeRead(c)
    \/ \E c \in Slots : deleteMyRecipeWrite(c)

Spend == budget > 0 /\ budget' = budget - 1

\* The app has started: MainFeed alone on the stack, nothing loaded or shown.
UiInit ==
    /\ nav = <<Route("MainFeed", <<>>)>>
    /\ form = BlankForm
    /\ myRecipes = <<>>
    /\ allRecipes = MOCK_RECIPES
    /\ alerts = <<>>
    /\ selectedCategory = All
    /\ isFavorited = FALSE
    /\ favoriteRecipes = <<>>
    /\ lastToggle = NoToggle

\* Spec: any caller of the eight exported functions, MaxOps calls in all.
Init ==
    /\ storage \in [Keys -> {Absent, Corrupt}]
    /\ calls = [c \in Slots |-> Idle]
    /\ now = ClockStart
    /\ UiInit
    /\ budget = MaxOps

Next ==
    \/ \E c \in Slots : getFavoritesCall(c) /\ Spend
    \/ \E c \in Slots, a \in SaveFavoritesInputs : saveFavoritesCall(c, a) /\ Spend
    \/ \E c \in Slots, x \in CatalogIds : toggleFavoriteCall(c, x) /\ Spend
    \/ \E c \in Slots : getMyRecipesCall(c) /\ Spend
    \/ \E c \in Slots, a \in SaveMyRecipesInputs : saveMyRecipesCall(c, a) /\ Spend
    \/ \E c \in Slots, r \in AddInputs : addMyRecipeCall(c, r) /\ Spend
    \/ \E c \in Slots, u \in UpdateInputs : updateMyRecipeCall(c, u) /\ Spend
    \/ \E c \in Slots, x \in UserIds : deleteMyRecipeCall(c, x) /\ Spend
    \/ \E c \in Slots : saveFavoritesDone(c)
    \/ \E c \in Slots : saveMyRecipesDone(c)
    \/ FavSteps
    \/ RecSteps
    \/ Tick

Spec == Init /\ [][Next]_vars

\* FavSpec: the favorites collection as the app uses it, through getFavorites and
\* toggleFavorite only, any number of calls, MaxCalls of them at a time.
FavInit ==
    /\ storage \in {[k \in Keys |-> IF k = FAVORITES_KEY THEN t ELSE Absent] :
                        t \in {Absent, Corrupt}}
    /\ calls = [c \in Slots |-> Idle]
    /\ now = ClockStart
    /\ UiInit
    /\ budget = 0

FavNext ==
    \/ \E c \in Slots : getFavoritesCall(c) /\ UNCHANGED budget
    \/ \E c \in Slots, x \in CatalogIds : toggleFavoriteCall(c, x) /\ UNCHANGED budget
    \/ FavSteps

FavSpec == FavInit /\ [][FavNext]_vars

\* RecSpec: the user-recipes collection through getMyRecipes, addMyRecipe,
\* updateMyRecipe and deleteMyRecipe: MaxOps calls, MaxCalls of them at a time.
\* The app starts on what earlier runs persisted: nothing, text that does not
\* parse, or up to MaxRecipes records that addMyRecipe stored, oldest first.
EarlierRecipes ==
    {NewRecipe(r, t) : r \in AddInputs, t \in (ClockStart - 1)..ClockStart}

Clock(recipe) == IF recipe.id = UserPrefix \o toString(ClockStart) THEN ClockStart
                 ELSE ClockStart - 1

EarlierCollections ==
    UNION {{s \in [1..n -> EarlierRecipes] :
                \A i \in 1..(n - 1) : Clock(s[i]) <= Clock(s[i + 1])} : n \in 0..MaxRecipes}

RecInit ==
    /\ storage \in {[k \in Keys |-> IF k = MY_RECIPES_KEY THEN t ELSE Absent] :
                        t \in {Absent, Corrupt}
                               \cup {JSONstringify(s) : s \in EarlierCollections}}
    /\ calls = [c \in Slots |-> Idle]
    /\ now = ClockStart
    /\ UiInit
    /\ budget = MaxOps

RecNext ==
    \/ \E c \in Slots : getMyRecipesCall(c) /\ Spend
    \/ \E c \in Slots, r \in AddInputs : addMyRecipeCall(c, r) /\ Spend
    \/ \E c \in Slots, u \in UpdateInputs : updateMyRecipeCall(c, u) /\ Spend
    \/ \E c \in Slots, x \in UserIds : deleteMyRecipeCall(c, x) /\ Spend
    \/ RecSteps
    \/ Tick

RecSpec == RecInit /\ [][RecNext]_vars

\* AppSpec: the app through its MyRecipes, AddRecipe and EditRecipe screens, on
\* what earlier runs of the Add form persisted; MaxAppOps calls after the first
\* focus of MainFeed.
FormRecipes ==
    {NewRecipe(AddFormRecipe(f), t) :
        f \in {g \in FormInputs : trim(g.name) # <<>>}, t \in (ClockStart - 1)..ClockStart}

FormCollections ==
    UNION {{s \in [1..n -> FormRecipes] :
                \A i \in 1..(n - 1) : Clock(s[i]) <= Clock(s[i + 1])} : n \in 0..(MaxRecipes - 1)}

AppInit ==
    /\ storage \in {[k \in Keys |-> IF k = MY_RECIPES_KEY THEN t ELSE Absent] :
                        t \in {Absent} \cup {JSONstringify(s) : s \in FormCollections}}
    /\ calls = [c \in Slots |-> IF c = 1 THEN FocusCall("MainFeed") ELSE Idle]
    /\ now = ClockStart
    /\ budget = MaxAppOps
    /\ UiInit

AppNext ==
    \/ PressMyFood
    \/ HeaderBack
    \/ PressAdd
    \/ \E i \in 1..MaxRecipes : PressEdit(i)
    \/ \E i \in 1..MaxRecipes : PressDelete(i)
    \/ \E k \in 1..MaxCalls : AnswerCancel(k)
    \/ \E k \in 1..MaxCalls : AnswerDelete(k)
    \/ \E f \in FormInputs : TypeForm(f)
    \/ AddSave
    \/ EditSave
    \/ \E k \in 1..MaxCalls : AnswerOK(k)
    \/ RecSteps
    \/ Tick

AppSpec == AppInit /\ [][AppNext]_vars


\* BrowseSpec: browsing without authoring. MainFeed with its category pills,
\* RecipeDetail and its heart, Favorites, and MyRecipes as a list to open a
\* user recipe from; MaxBrowseOps calls after the first focus of MainFeed.
BrowseFavorites ==
    {<<>>, <<toString(1)>>, <<UserPrefix \o toString(ClockStart - 1), toString(2), toString(1)>>}

BrowseRecipes ==
    {<<>>, <<NewRecipe(AddFormRecipe([BlankForm EXCEPT !.name = <<"A">>]), ClockStart - 1)>>}

BrowseInit ==
    /\ storage \in {[k \in Keys |-> IF k = FAVORITES_KEY THEN f ELSE r] :
                        f \in {Absent} \cup {JSONstringify(a) : a \in BrowseFavorites},
                        r \in {Absent} \cup {JSONstringify(a) : a \in BrowseRecipes}}
    /\ calls = [c \in Slots |-> IF c = 1 THEN FocusCall("MainFeed") ELSE Idle]
    /\ now = ClockStart
    /\ budget = MaxBrowseOps
    /\ UiInit

BrowseNext ==
    \/ \E categoryId \in CategoryIds : handleCategoryPress(categoryId)
    \/ \E i \in 1..(MaxCatalog + MaxRecipes) : PressRecipe(i)
    \/ PressFavorites
    \/ \E i \in 1..(MaxCatalog + MaxRecipes) : PressFavoriteRecipe(i)
    \/ \E i \in 1..MaxRecipes : PressMyRecipe(i)
    \/ handleToggleFavorite
    \/ HeaderBack
    \/ FavSteps
    \/ \E c \in Slots : getMyRecipesDone(c)

BrowseSpec == BrowseInit /\ [][BrowseNext]_vars

\* FormSpec: the Add form and the Edit form, filled in and saved. The name is
\* given and one other field holds any text of up to MaxText characters: lines
\* for ingredients and instructions, numeric text for servings and calories.
LineChars == {"x", " ", Newline}
NumberChars == {"0", "1", "7", "a", "-", " "}

RECURSIVE TextsOver(_, _)
TextsOver(chars, n) ==
    IF n = 0 THEN {<<>>}
    ELSE TextsOver(chars, n - 1) \cup
         {Append(t, ch) : t \in {u \in TextsOver(chars, n - 1) : Len(u) = n - 1}, ch \in chars}

NamedForm == [BlankForm EXCEPT !.name = <<"A">>]

TypedForms ==
    {[NamedForm EXCEPT !.ingredients = t] : t \in TextsOver(LineChars, MaxText)}
    \cup {[NamedForm EXCEPT !.instructions = t] : t \in TextsOver(LineChars, MaxText)}
    \cup {[NamedForm EXCEPT !.servings = t] : t \in TextsOver(NumberChars, MaxText - 1)}
    \cup {[NamedForm EXCEPT !.calories = t] : t \in TextsOver(NumberChars, MaxText - 1)}

\* The recipe an earlier run saved, which the Edit form is opened on.
SavedRecipe ==
    NewRecipe(AddFormRecipe([NamedForm EXCEPT !.servings = <<"2">>,
                                              !.ingredients = <<"y">>]), ClockStart - 1)

FormInit ==
    /\ storage = [k \in Keys |-> IF k = MY_RECIPES_KEY THEN JSONstringify(<<SavedRecipe>>)
                                 ELSE Absent]
    /\ calls = [c \in Slots |-> Idle]
    /\ now = ClockStart
    /\ budget = MaxOps
    /\ nav \in {<<Route("MainFeed", <<>>), Route("MyRecipes", <<>>), top>> :
                    top \in {Route("AddRecipe", <<>>), Route("EditRecipe", SavedRecipe)}}
    /\ form \in TypedForms
    /\ myRecipes = <<SavedRecipe>>
    /\ allRecipes = MOCK_RECIPES \o <<SavedRecipe>>
    /\ alerts = <<>>
    /\ selectedCategory = All
    /\ isFavorited = FALSE
    /\ favoriteRecipes = <<>>
    /\ lastToggle = NoToggle

FormNext ==
    \/ AddSave
    \/ EditSave
    \/ \E c \in Slots : addMyRecipeRead(c)
    \/ \E c \in Slots : addMyRecipeWrite(c)
    \/ \E c \in Slots : updateMyRecipeRead(c)
    \/ \E c \in Slots : updateMyRecipeWrite(c)
    \/ \E k \in 1..MaxCalls : AnswerOK(k)
    \/ \E c \in Slots : getMyRecipesDone(c)

FormSpec == FormInit /\ [][FormNext]_vars

\* NavSpec: every screen of the stack and every control that navigates, on one
\* stored user recipe and one favorite; MaxNavOps calls after the first focus
\* of MainFeed.
NavInit ==
    /\ storage = [k \in Keys |-> IF k = MY_RECIPES_KEY THEN JSONstringify(<<SavedRecipe>>)
                                 ELSE JSONstringify(<<toString(1)>>)]
    /\ calls = [c \in Slots |-> IF c = 1 THEN FocusCall("MainFeed") ELSE Idle]
    /\ now = ClockStart
    /\ budget = MaxNavOps
    /\ UiInit

NavNext ==
    \/ \E categoryId \in CategoryIds : handleCategoryPress(categoryId)
    \/ \E i \in 1..(MaxCatalog + MaxRecipes) : PressRecipe(i)
    \/ PressFavorites
    \/ \E i \in 1..(MaxCatalog + MaxRecipes) : PressFavoriteRecipe(i)
    \/ \E i \in 1..MaxRecipes : PressMyRecipe(i)
    \/ PressAdd
    \/ \E i \in 1..MaxRecipes : PressEdit(i)
    \/ TypeForm(NamedForm)
    \/ AddSave
    \/ EditSave
    \/ \E k \in 1..MaxCalls : AnswerOK(k)
    \/ HeaderBack
    \/ DetailBack
    \/ \E c \in Slots : getFavoritesDone(c)
    \/ \E c \in Slots : getMyRecipesDone(c)
    \/ \E c \in Slots : addMyRecipeRead(c)
    \/ \E c \in Slots : addMyRecipeWrite(c)
    \/ \E c \in Slots : updateMyRecipeRead(c)
    \/ \E c \in Slots : updateMyRecipeWrite(c)

NavSpec == NavInit /\ [][NavNext]_vars

\* RoundSpec: My Recipes showing the one record that an earlier run of the Add
\* form stored, from any of the typed forms; the Edit screen is opened on it and
\* saved as pre-populated.
AddedRecipes ==
    {NewRecipe(AddFormRecipe(f), ClockStart - 1) :
        f \in TypedForms \cup {g \in FormInputs : trim(g.name) # <<>>}}

RoundInit ==
    /\ \E r \in AddedRecipes :
        /\ storage = [k \in Keys |-> IF k = MY_RECIPES_KEY THEN JSONstringify(<<r>>)
                                     ELSE Absent]
        /\ myRecipes = <<r>>
        /\ allRecipes = MOCK_RECIPES \o <<r>>
    /\ calls = [c \in Slots |-> Idle]
    /\ now = ClockStart
    /\ budget = MaxOps
    /\ nav = <<Route("MainFeed", <<>>), Route("MyRecipes", <<>>)>>
    /\ form = BlankForm
    /\ alerts = <<>>
    /\ selectedCategory = All
    /\ isFavorited = FALSE
    /\ favoriteRecipes = <<>>
    /\ lastToggle = NoToggle

RoundNext ==
    \/ \E i \in 1..MaxRecipes : PressEdit(i)
    \/ EditSave
    \/ \E c \in Slots : updateMyRecipeRead(c)
    \/ \E c \in Slots : updateMyRecipeWrite(c)
    \/ \E k \in 1..MaxCalls : AnswerOK(k)
    \/ \E c \in Slots : getMyRecipesDone(c)

RoundSpec == RoundInit /\ [][RoundNext]_vars

\* BothSpec: the readers and the mutating functions of both collections,
\* MaxOps calls in all, on favorites and user recipes that earlier runs stored.
BothInit ==
    /\ storage \in {[k \in Keys |-> IF k = FAVORITES_KEY THEN f ELSE r] :
                        f \in {Absent} \cup {JSONstringify(a) : a \in BrowseFavorites},
                        r \in {Absent} \cup {JSONstringify(a) : a \in BrowseRecipes}}
    /\ calls = [c \in Slots |-> Idle]
    /\ now = ClockStart
    /\ UiInit
    /\ budget = MaxOps

BothNext ==
    \/ \E c \in Slots : getFavoritesCall(c) /\ Spend
    \/ \E c \in Slots : getMyRecipesCall(c) /\ Spend
    \/ \E c \in Slots, x \in CatalogIds \cup UserIds : toggleFavoriteCall(c, x) /\ Spend
    \/ \E c \in Slots, r \in AddInputs : addMyRecipeCall(c, r) /\ Spend
    \/ \E c \in Slots, u \in UpdateInputs : updateMyRecipeCall(c, u) /\ Spend
    \/ \E c \in Slots, x \in UserIds : deleteMyRecipeCall(c, x) /\ Spend
    \/ FavSteps
    \/ RecSteps

BothSpec == BothInit /\ [][BothNext]_vars

\* DetailSpec: one Detail screen, open on the first recipe of the catalog, its
\* focus-time check pending: MaxDetailOps presses of the heart, MaxCalls calls
\* at a time.
DetailInit ==
    /\ storage \in {[k \in Keys |-> IF k = FAVORITES_KEY THEN f ELSE Absent] :
                        f \in {Absent} \cup {JSONstringify(a) : a \in BrowseFavorites}}
    /\ nav = <<Route("MainFeed", <<>>), Route("RecipeDetail", MOCK_RECIPES[1])>>
    /\ calls = [c \in Slots |-> IF c = 1 THEN FocusOf(Route("RecipeDetail", MOCK_RECIPES[1]))
                                ELSE Idle]
    /\ now = ClockStart
    /\ budget = MaxDetailOps
    /\ form = BlankForm
    /\ myRecipes = <<>>
    /\ allRecipes = MOCK_RECIPES
    /\ alerts = <<>>
    /\ selectedCategory = All
    /\ isFavorited = FALSE
    /\ favoriteRecipes = <<>>
    /\ lastToggle = NoToggle

DetailNext ==
    \/ handleToggleFavorite
    \/ FavSteps

DetailSpec == DetailInit /\ [][DetailNext]_vars

-----------------------------------------------------------------------------
(* Properties of the favorites collection *)

Done(c, op) == At(c, op, "done")

NoDuplicates(a) == \A i, j \in 1..Len(a) : i # j => a[i] # a[j]

Contains(a, x) == \E i \in 1..Len(a) : a[i] = x

\* Two completed toggleFavorite(x) calls without a failure, the first on a
\* sequence F without x, the second on what the first persisted.
ToggledTwice(c1, c2) ==
    /\ c1 # c2
    /\ Done(c1, "toggleFavorite") /\ Done(c2, "toggleFavorite")
    /\ calls[c1].arg = calls[c2].arg
    /\ calls[c1].errors = {} /\ calls[c2].errors = {}
    /\ ~Contains(calls[c1].got, calls[c1].arg)
    /\ calls[c2].got = calls[c1].out.v

\* C1: two toggleFavorite(x) calls run one after the other on a sequence F that
\* does not contain x return F with x appended at the end, then exactly F.
C1_ToggleTwice ==
    \A c1, c2 \in Slots :
        ToggledTwice(c1, c2) =>
            /\ calls[c1].out = Array(calls[c1].got \o <<calls[c1].arg>>)
            /\ calls[c2].out = Array(calls[c1].got)

\* Both calls have run on an F of two other ids, and F is what is persisted.
C1_Witness ==
    \E c1, c2 \in Slots :
        /\ ToggledTwice(c1, c2)
        /\ Len(calls[c1].got) = 2
        /\ storage[FAVORITES_KEY] = JSONstringify(calls[c1].got)

\* C2: whatever the interleaving of toggleFavorite calls, the persisted
\* favorites sequence holds no recipe id twice.
C2_NoDuplicateFavorites == NoDuplicates(Persisted(FAVORITES_KEY))

\* Two overlapping toggles of the same absent id (both read before either
\* wrote) have completed, and the id is persisted.
C2_Witness ==
    \E c1, c2 \in Slots :
        /\ c1 # c2
        /\ Done(c1, "toggleFavorite") /\ Done(c2, "toggleFavorite")
        /\ calls[c1].arg = calls[c2].arg
        /\ calls[c1].errors = {} /\ calls[c2].errors = {}
        /\ calls[c1].got = calls[c2].got
        /\ Len(calls[c1].got) > 0
        /\ ~Contains(calls[c1].got, calls[c1].arg)
        /\ Contains(Persisted(FAVORITES_KEY), calls[c1].arg)

\* C7, as claimed: a toggleFavorite during which a storage step failed returns
\* the empty sequence.
C7_FailedToggleReturnsEmpty ==
    \A c \in Slots :
        (Done(c, "toggleFavorite") /\ calls[c].errors # {}) => calls[c].out = Array(<<>>)

-----------------------------------------------------------------------------
(* Properties of the whole utility *)

\* C6: no call of the eight functions settles by throwing, whatever the store
\* does; each resolves with a value.
C6_NeverThrows ==
    \A c \in Slots : calls[c].out.t # "throw"

\* A read of unparseable text, and a rejected write, have both been survived.
C6_Witness ==
    \E c1, c2 \in Slots :
        /\ calls[c1].pc = "done" /\ calls[c2].pc = "done"
        /\ "Error reading favorites:" \in calls[c1].errors
        /\ storage[FAVORITES_KEY] = Corrupt
        /\ calls[c2].op = "saveMyRecipes"
        /\ "Error saving my recipes:" \in calls[c2].errors

-----------------------------------------------------------------------------
(* Properties of the user-recipes collection *)

\* id is "user_" followed by the decimal digits of t.
IsUserIdOf(id, t) ==
    /\ Len(id) > Len(UserPrefix)
    /\ SubSeq(id, 1, Len(UserPrefix)) = UserPrefix
    /\ LET d == SubSeq(id, Len(UserPrefix) + 1, Len(id))
       IN /\ \A i \in 1..Len(d) : d[i] \in Digits
          /\ Len(d) = 1 \/ d[1] # "0"
          /\ DecimalValue(d) = t

Last(a) == a[Len(a)]

\* C3: addMyRecipe(r) builds a record whose id is "user_" and the clock value
\* read during the call, whose category is "myfood" whatever r carries, and
\* whose other fields are r's; it returns that record, and stores it last
\* unless the write failed.
C3_AddBuildsRecord ==
    [][\A c \in Slots :
        /\ (At(c, "addMyRecipe", "read") /\ calls'[c].pc = "write") =>
              LET r == calls[c].arg
                  n == Last(calls'[c].local)
              IN /\ IsUserIdOf(n.id, now)
                 /\ n.category = MyFood
                 /\ DOMAIN n = (DOMAIN r) \cup {"id", "category"}
                 /\ \A f \in (DOMAIN r) \ {"id", "category"} : n[f] = r[f]
        /\ (At(c, "addMyRecipe", "write") /\ calls'[c].pc = "done") =>
              /\ calls'[c].out = Object(Last(calls[c].local))
              /\ "Error saving my recipes:" \notin calls'[c].errors =>
                    Last(Persisted(MY_RECIPES_KEY)') = Last(calls[c].local)
      ]_vars

\* An addMyRecipe of a record with a category and an id of its own has returned
\* and its record is the last one persisted, at a two-digit clock value.
C3_Witness ==
    \E c \in Slots :
        /\ Done(c, "addMyRecipe")
        /\ "category" \in DOMAIN calls[c].arg
        /\ calls[c].arg.category = Lunch
        /\ calls[c].out.t = "object"
        /\ calls[c].out.v.id = UserPrefix \o <<"1", "0">>
        /\ Len(Persisted(MY_RECIPES_KEY)) > 1
        /\ Last(Persisted(MY_RECIPES_KEY)) = calls[c].out.v

\* The write of call c succeeds on the very collection the call read.
CleanWrite(c, op) ==
    /\ At(c, op, "write")
    /\ calls'[c].pc = "done"
    /\ calls'[c].errors = {}
    /\ Persisted(MY_RECIPES_KEY) = calls[c].got

\* C4: updateMyRecipe(u) with a stored record of id u.id replaces that record,
\* at its position, by the record that has u's value for every field of u and
\* the stored value for every other field; the other records are unchanged.
C4_UpdateMergesInPlace ==
    [][\A c \in Slots :
        CleanWrite(c, "updateMyRecipe") =>
            LET old == Persisted(MY_RECIPES_KEY)
                new == Persisted(MY_RECIPES_KEY)'
                u == calls[c].arg
                k == CHOOSE i \in 1..Len(old) :
                        old[i].id = u.id /\ \A j \in 1..(i - 1) : old[j].id # u.id
            IN /\ Len(new) = Len(old)
               /\ \A i \in 1..Len(old) : i # k => new[i] = old[i]
               /\ DOMAIN new[k] = (DOMAIN old[k]) \cup (DOMAIN u)
               /\ \A f \in DOMAIN u : new[k][f] = u[f]
               /\ \A f \in (DOMAIN old[k]) \ (DOMAIN u) : new[k][f] = old[k][f]
      ]_vars

\* An update of the second of three records has completed: its calories are the
\* update's, its name is the stored one.
C4_Witness ==
    \E c \in Slots :
        /\ Done(c, "updateMyRecipe")
        /\ calls[c].errors = {}
        /\ Len(calls[c].got) = 3
        /\ FindById(calls[c].got, calls[c].arg.id) = 1
        /\ Len(Persisted(MY_RECIPES_KEY)) = 3
        /\ Persisted(MY_RECIPES_KEY)[2].calories = calls[c].arg.calories
        /\ calls[c].got[2].calories # calls[c].arg.calories
        /\ Persisted(MY_RECIPES_KEY)[2].name = calls[c].got[2].name

DistinctIds(a) == \A i, j \in 1..Len(a) : i # j => a[i].id # a[j].id

\* C5: with pairwise distinct stored ids, deleteMyRecipe(id) removes exactly the
\* record with that id and keeps the others, unmodified and in order; with no
\* record of that id the persisted sequence is unchanged.
C5_DeleteRemovesOne ==
    [][\A c \in Slots :
        (CleanWrite(c, "deleteMyRecipe") /\ DistinctIds(Persisted(MY_RECIPES_KEY))) =>
            LET old == Persisted(MY_RECIPES_KEY)
                new == Persisted(MY_RECIPES_KEY)'
                hit == {i \in 1..Len(old) : old[i].id = calls[c].arg}
            IN IF hit = {} THEN new = old
               ELSE \E k \in hit : new = SubSeq(old, 1, k - 1) \o SubSeq(old, k + 1, Len(old))
      ]_vars

\* The middle one of three records with distinct ids has been deleted.
C5_Witness ==
    \E c \in Slots :
        /\ Done(c, "deleteMyRecipe")
        /\ calls[c].errors = {}
        /\ Len(calls[c].got) = 3
        /\ DistinctIds(calls[c].got)
        /\ calls[c].got[2].id = calls[c].arg
        /\ Persisted(MY_RECIPES_KEY) = <<calls[c].got[1], calls[c].got[3]>>

\* C9, as claimed: a deleteMyRecipe during which a storage step failed leaves
\* the persisted collection as it was.
C9_FailedDeleteIsNoOp ==
    [][\A c \in Slots :
        (At(c, "deleteMyRecipe", "write") /\ calls[c].errors # {}) =>
            Persisted(MY_RECIPES_KEY)' = Persisted(MY_RECIPES_KEY)
      ]_vars

-----------------------------------------------------------------------------
(* Properties of the screens *)

\* C8: when the Add Recipe screen's addMyRecipe settles, the dialog it shows is
\* "Success" only if the new record is in the persisted collection, and is
\* "Error" whenever the record was not persisted.
C8_FailedAddShowsError ==
    [][\A c \in Slots :
        (/\ At(c, "addMyRecipe", "write")
         /\ calls[c].owner = "AddRecipe.handleSave"
         /\ calls'[c].pc # "write") =>
            LET record == Last(calls[c].local)
                shown == Last(alerts')
            IN /\ Len(alerts') = Len(alerts) + 1
               /\ shown.screen = "AddRecipe"
               /\ shown.title = "Success" => Contains(Persisted(MY_RECIPES_KEY)', record)
               /\ ~Contains(Persisted(MY_RECIPES_KEY)', record) => shown.title = "Error"
      ]_vars

HasUserPrefix(id) ==
    /\ Len(id) >= Len(UserPrefix)
    /\ SubSeq(id, 1, Len(UserPrefix)) = UserPrefix

\* C10: through the screens, every record of the persisted user recipes has
\* category "myfood" and an id that starts with "user_".
C10_PersistedAreUserRecipes ==
    \A i \in 1..Len(Persisted(MY_RECIPES_KEY)) :
        LET r == Persisted(MY_RECIPES_KEY)[i]
        IN /\ "category" \in DOMAIN r
           /\ r.category = MyFood
           /\ "id" \in DOMAIN r
           /\ HasUserPrefix(r.id)

\* The Add screen has saved a record at clock value MaxClock, it is persisted,
\* and the Edit screen is now open on a persisted record.
C10_Witness ==
    /\ OnTop("EditRecipe")
    /\ Contains(Persisted(MY_RECIPES_KEY), Top.recipe)
    /\ \E i \in 1..Len(Persisted(MY_RECIPES_KEY)) :
          Persisted(MY_RECIPES_KEY)[i].id = UserPrefix \o toString(MaxClock)

-----------------------------------------------------------------------------
(* Properties of ids, overlapping writers *)

\* C11, as claimed: the ids of the persisted user recipes stay pairwise
\* distinct through every step of addMyRecipe, updateMyRecipe and deleteMyRecipe
\* calls, the clock being free to give two successive addMyRecipe calls the
\* same value.
C11_PersistedIdsDistinct ==
    [][DistinctIds(Persisted(MY_RECIPES_KEY)) => DistinctIds(Persisted(MY_RECIPES_KEY)')]_vars

-----------------------------------------------------------------------------
(* Properties of the Main Feed *)

\* The elements of a at the positions idx, in the order of a.
Pick(a, idx) ==
    [k \in 1..Cardinality(idx) |->
        a[CHOOSE i \in idx : Cardinality({j \in idx : j <= i}) = k]]

\* C12: filteredRecipes is the sub-sequence of allRecipes, in order, of the
\* recipes whose category is not "myfood" when selectedCategory is "all", and of
\* the recipes whose category is selectedCategory otherwise.
C12_FilteredRecipes ==
    filteredRecipes =
        Pick(allRecipes,
             {i \in 1..Len(allRecipes) :
                IF selectedCategory = All THEN allRecipes[i].category # MyFood
                ELSE allRecipes[i].category = selectedCategory})

\* "breakfast" is selected while the feed holds catalog recipes of two
\* categories and a user recipe: the two breakfast recipes are shown.
C12_Witness ==
    /\ selectedCategory = Breakfast
    /\ \E i \in 1..Len(allRecipes) : allRecipes[i].category = MyFood
    /\ \E i \in 1..Len(allRecipes) : allRecipes[i].category = Lunch
    /\ Len(filteredRecipes) = 2

\* C17: pressing the "myfood" pill leaves selectedCategory as it is and pushes
\* MyRecipes; pressing any other pill sets selectedCategory to its id and leaves
\* the navigation stack as it is.
C17_CategoryPress ==
    [][\A categoryId \in CategoryIds :
        handleCategoryPress(categoryId) =>
            IF categoryId = MyFood
            THEN /\ selectedCategory' = selectedCategory
                 /\ nav' = Append(nav, Route("MyRecipes", <<>>))
            ELSE /\ selectedCategory' = categoryId
                 /\ nav' = nav
      ]_vars

\* "breakfast" was selected, then "myfood" pressed: MyRecipes is on top of
\* MainFeed and the selection is still "breakfast".
C17_Witness ==
    /\ Len(nav) = 2
    /\ OnTop("MyRecipes")
    /\ selectedCategory = Breakfast

-----------------------------------------------------------------------------
(* Properties of the Add and Edit forms *)

\* The text is empty or holds nothing but whitespace.
Blank(s) == \A i \in 1..Len(s) : s[i] \in Whitespace

\* C13: Save pressed on the Add or the Edit form while the name is empty or
\* whitespace-only starts no call, leaves the stored text, every field of the
\* form and the navigation stack as they were.
C13_BlankNameSavesNothing ==
    [][((AddSave \/ EditSave) /\ Blank(form.name)) =>
            /\ calls' = calls
            /\ storage' = storage
            /\ form' = form
            /\ nav' = nav
      ]_vars

\* Save was pressed on the Add form with a whitespace-only name and another
\* field filled in: the Missing Information dialog is up, the form is as typed.
C13_Witness ==
    /\ OnTop("AddRecipe")
    /\ form.name = <<" ">>
    /\ form.prepTime # <<>>
    /\ \E k \in 1..Len(alerts) :
          alerts[k].title = "Missing Information" /\ alerts[k].screen = "AddRecipe"

\* The positions of the newlines of s, and the two ends.
Breaks(s) == {0, Len(s) + 1} \cup {i \in 1..Len(s) : s[i] = Newline}

\* The line of s that starts after the break b.
Piece(s, b) ==
    LET e == CHOOSE j \in Breaks(s) : j > b /\ \A m \in Breaks(s) : m > b => j <= m
    IN SubSeq(s, b + 1, e - 1)

\* A line that is not blank, from its first to its last character that is not
\* whitespace.
Core(p) ==
    LET inked == {i \in 1..Len(p) : p[i] \notin Whitespace}
        first == CHOOSE i \in inked : \A j \in inked : i <= j
        last == CHOOSE i \in inked : \A j \in inked : j <= i
    IN SubSeq(p, first, last)

\* The lines of s that are not blank, trimmed, in order.
LinesOf(s) ==
    LET kept == {b \in Breaks(s) \ {Len(s) + 1} : ~Blank(Piece(s, b))}
    IN [k \in 1..Cardinality(kept) |->
            Core(Piece(s, CHOOSE b \in kept : Cardinality({j \in kept : j <= b}) = k))]

\* The write of call c, awaited by `owner`, goes through in this step.
Saves(c, owner, op) ==
    /\ At(c, op, "write")
    /\ calls[c].owner = owner
    /\ calls'[c].pc # "write"
    /\ storage' # storage

\* The record of the persisted user recipes with this id (the first one).
Stored(id) ==
    Persisted(MY_RECIPES_KEY)[CHOOSE i \in 1..Len(Persisted(MY_RECIPES_KEY)) :
        /\ Persisted(MY_RECIPES_KEY)[i].id = id
        /\ \A j \in 1..(i - 1) : Persisted(MY_RECIPES_KEY)[j].id # id]

LinesAsEntered(r) ==
    /\ r.ingredients = LinesOf(form.ingredients)
    /\ r.instructions = LinesOf(form.instructions)
    /\ \A i \in 1..Len(r.ingredients) : ~Blank(r.ingredients[i])
    /\ \A i \in 1..Len(r.instructions) : ~Blank(r.instructions[i])

\* C14: the ingredients and the instructions a save of the Add or the Edit
\* form stores are the lines of the entered text, each trimmed, without the
\* lines that are blank, in order; so no stored entry is empty or blank.
C14_StoredLines ==
    [][\A c \in Slots :
        /\ Saves(c, "AddRecipe.handleSave", "addMyRecipe") =>
              LinesAsEntered(Last(Persisted(MY_RECIPES_KEY))')
        /\ (Saves(c, "EditRecipe.handleSave", "updateMyRecipe") /\ calls[c].errors = {}) =>
              LinesAsEntered(Stored(Top.recipe.id)')
      ]_vars

\* The Add form was saved with the ingredients text "x", two newlines, "x": the
\* stored record lists "x" twice and nothing else.
C14_Witness ==
    /\ OnTop("AddRecipe")
    /\ form.ingredients = <<"x", Newline, Newline, "x">>
    /\ Len(Persisted(MY_RECIPES_KEY)) = 2
    /\ Last(Persisted(MY_RECIPES_KEY)).ingredients = << <<"x">>, <<"x">> >>
    /\ \E k \in 1..Len(alerts) : alerts[k].title = "Success"

\* C15, as claimed: an Add save stores as servings the integer the servings
\* text parses to, 0 included, and 1 only when the text is blank or does not
\* parse; as calories the parsed integer, and 0 when blank or unparseable.
C15_StoredNumbers ==
    [][\A c \in Slots :
        Saves(c, "AddRecipe.handleSave", "addMyRecipe") =>
            LET r == Last(Persisted(MY_RECIPES_KEY))'
                servings == parseInt(form.servings)
                calories == parseInt(form.calories)
            IN /\ r.servings = IF servings.nan THEN 1 ELSE servings.n
               /\ r.calories = IF calories.nan THEN 0 ELSE calories.n
      ]_vars

-----------------------------------------------------------------------------
(* Properties of the Favorites screen *)

\* The fetch of call c, started by a focus of the Favorites screen that is
\* still mounted, completes in this step and sets the displayed list.
FavoritesLoaded(c) ==
    /\ At(c, "getMyRecipes", "read")
    /\ calls[c].owner = "Favorites.loadFavorites.userRecipes"
    /\ calls[c].live
    /\ calls'[c].pc = "done"

Displayed(list, id) == \E i \in 1..Len(list) : list[i].id = id

-----------------------------------------------------------------------------
(* Properties of overlapping writers *)

\* Call d has returned without a logged failure, and call c of the same
\* operation, which read the same collection as d did, is about to write.
Overlapped(c, d, op) ==
    /\ c # d
    /\ At(c, op, "write")
    /\ At(d, op, "done")
    /\ calls[d].errors = {}
    /\ calls[d].got = calls[c].got

\* Call c writes in this step and returns without a logged failure.
WritesLast(c) == calls'[c].pc = "done" /\ calls'[c].errors = {}

\* C18: when two toggleFavorite calls for distinct ids, or two addMyRecipe
\* calls, both read the collection before either writes, the collection
\* persisted once both have completed is the one the last writer computed from
\* its own read: the other toggle's id is as it was read, and only one record
\* was added.
C18_LastWriterWins ==
    [][\A c, d \in Slots :
        /\ (/\ Overlapped(c, d, "toggleFavorite")
            /\ calls[c].arg # calls[d].arg
            /\ WritesLast(c)) =>
                /\ Persisted(FAVORITES_KEY)' = ToggleList(calls[c].got, calls[c].arg)
                /\ includes(Persisted(FAVORITES_KEY)', calls[d].arg)
                        <=> includes(calls[d].got, calls[d].arg)
        /\ (Overlapped(c, d, "addMyRecipe") /\ WritesLast(c)) =>
                /\ Persisted(MY_RECIPES_KEY)' = Append(calls[c].got, calls'[c].out.v)
                /\ Len(Persisted(MY_RECIPES_KEY)') = Len(calls[d].got) + 1
      ]_vars

\* Two toggles of distinct ids that read the same favorites have both returned
\* without a failure, and the favorites hold one of the two ids only.
C18_Witness ==
    \E c, d \in Slots :
        /\ c # d
        /\ At(c, "toggleFavorite", "done") /\ At(d, "toggleFavorite", "done")
        /\ calls[c].arg # calls[d].arg
        /\ calls[c].got = calls[d].got
        /\ calls[c].errors = {} /\ calls[d].errors = {}
        /\ Persisted(FAVORITES_KEY) = calls[c].out.v
        /\ ~includes(Persisted(FAVORITES_KEY), calls[d].arg)

-----------------------------------------------------------------------------
(* Properties of the My Recipes screen *)

\* The refetch that follows a confirmed delete, in call c of a My Recipes
\* screen that is still mounted, completes in this step and sets the list.
Refetched(c) ==
    /\ At(c, "getMyRecipes", "read")
    /\ calls[c].owner = "MyRecipes.handleDelete.refetch"
    /\ calls[c].live
    /\ calls'[c].pc = "done"

DeleteInvoked(c) ==
    /\ ~At(c, "deleteMyRecipe", "read")
    /\ calls'[c].op = "deleteMyRecipe" /\ calls'[c].pc = "read"

\* C20: pressing Delete on a row changes neither the persisted collection nor
\* the calls in flight; deleteMyRecipe starts only in the step that answers
\* "Delete" in the dialog, for the id the dialog was shown for; and answering
\* "Cancel" leaves the persisted collection, the displayed list and the calls
\* in flight unchanged.
C20_DeleteNeedsConfirmation ==
    [][/\ \A i \in 1..Len(myRecipes) :
            PressDelete(i) => UNCHANGED <<storage, calls, myRecipes>>
       /\ \A c \in Slots :
            DeleteInvoked(c) =>
                \E k \in 1..Len(alerts) :
                    /\ alerts[k].title = "Delete Recipe"
                    /\ alerts' = Without(alerts, k)
                    /\ calls'[c].arg = alerts[k].recipeId
       /\ \A k \in 1..Len(alerts) :
            AnswerCancel(k) => UNCHANGED <<storage, calls, myRecipes>>
      ]_vars

\* The confirmation dialog is on display for a record that is still persisted
\* and displayed, and no deleteMyRecipe call has been started.
C20_Witness ==
    /\ \E k \in 1..Len(alerts) :
        /\ alerts[k].title = "Delete Recipe"
        /\ Displayed(Persisted(MY_RECIPES_KEY), alerts[k].recipeId)
        /\ Displayed(myRecipes, alerts[k].recipeId)
    /\ \A c \in Slots : calls[c].op # "deleteMyRecipe"

-----------------------------------------------------------------------------
(* Properties of the Edit screen *)

\* The position of the first record of `recipes` with this id.
PlaceOf(recipes, id) ==
    CHOOSE i \in 1..Len(recipes) :
        recipes[i].id = id /\ \A j \in 1..(i - 1) : recipes[j].id # id

\* C21: a Save on the Edit form passes updateMyRecipe the id of the recipe the
\* screen was opened on, category "myfood", and as image the entered URL,
\* trimmed, or the image of that recipe when the field is blank; and when the
\* write of that update goes through on the collection it read, the record with
\* that id keeps its position and carries that id, category and image, the
\* number of records is the same and every other record is as it was.
C21_EditSaveKeepsPlace ==
    [][/\ (EditSave /\ ~Blank(form.name)) =>
            \E c \in Slots :
                /\ calls'[c] # calls[c]
                /\ calls'[c].arg.id = Top.recipe.id
                /\ calls'[c].arg.category = MyFood
                /\ calls'[c].arg.image = IF Blank(form.imageUrl) THEN Top.recipe.image
                                         ELSE Core(form.imageUrl)
       /\ \A c \in Slots :
            (/\ Saves(c, "EditRecipe.handleSave", "updateMyRecipe")
             /\ Persisted(MY_RECIPES_KEY) = calls[c].got) =>
                LET before == Persisted(MY_RECIPES_KEY)
                    after == Persisted(MY_RECIPES_KEY)'
                    u == calls[c].arg
                    at == PlaceOf(before, u.id)
                IN /\ Len(after) = Len(before)
                   /\ after[at].id = u.id
                   /\ after[at].category = MyFood
                   /\ after[at].image = u.image
                   /\ \A j \in 1..Len(before) : j # at => after[j] = before[j]
      ]_vars

\* A recipe with its own image was opened on the Edit screen, the image field
\* was cleared and the name changed, and the save went through: the stored
\* record has the new name and still the recipe's own image.
C21_Witness ==
    /\ OnTop("EditRecipe")
    /\ form.imageUrl = <<>>
    /\ Top.recipe.image = <<"u">>
    /\ Displayed(Persisted(MY_RECIPES_KEY), Top.recipe.id)
    /\ Stored(Top.recipe.id).image = <<"u">>
    /\ Stored(Top.recipe.id).name = <<"A">>
    /\ Top.recipe.name # <<"A">>
    /\ \E k \in 1..Len(alerts) :
          alerts[k].title = "Success" /\ alerts[k].screen = "EditRecipe"


\* The updateMyRecipe that the Edit screen awaits in call c returns in this step.
EditReturns(c) ==
    /\ calls[c].owner = "EditRecipe.handleSave"
    /\ calls[c].pc \in {"read", "write"}
    /\ calls'[c].pc = "idle"

\* The OK button of the Edit screen's Success dialog k is pressed in this step.
EditAcknowledged(k) ==
    /\ AnswerOK(k)
    /\ alerts[k].title = "Success"
    /\ alerts[k].screen = "EditRecipe"

\* Every return of the awaited update shows the dialog "Recipe updated
\* successfully!", and the Edit screen never shows a dialog other than that
\* one and the missing-name one.
EditSaveAlwaysSucceeds ==
    /\ \A c \in Slots :
        EditReturns(c) =>
            /\ Len(alerts') = Len(alerts) + 1
            /\ Last(alerts').title = "Success"
            /\ Last(alerts').message = "Recipe updated successfully!"
            /\ Last(alerts').screen = "EditRecipe"
    /\ \A k \in 1..Len(alerts') :
        alerts'[k].screen = "EditRecipe" =>
            alerts'[k].title \in {"Success", "Missing Information"}

-----------------------------------------------------------------------------
(* Properties of updates and adds on records that are not theirs *)

\* An updateMyRecipe whose id matches no stored record returns from its read:
\* it never gets to write, and the store is as it was.
UnmatchedUpdateIsNoOp ==
    \A c \in Slots :
        (/\ At(c, "updateMyRecipe", "read")
         /\ calls'[c] # calls[c]
         /\ ~Displayed(Persisted(MY_RECIPES_KEY), calls[c].arg.id)) =>
            /\ calls'[c].pc # "write"
            /\ storage' = storage

\* C23, as claimed: an update whose id matches no stored record writes nothing,
\* and no step of any update makes an id persisted that was not persisted
\* before the step, so that a deleted record is never brought back.
C23_UpdateNeverAdds ==
    [][/\ UnmatchedUpdateIsNoOp
       /\ \A c \in Slots :
            (calls[c].op = "updateMyRecipe" /\ calls'[c] # calls[c]) =>
                /\ Len(Persisted(MY_RECIPES_KEY)') <= Len(Persisted(MY_RECIPES_KEY))
                /\ Displayed(Persisted(MY_RECIPES_KEY)', calls[c].arg.id)
                        => Displayed(Persisted(MY_RECIPES_KEY), calls[c].arg.id)
      ]_vars

\* C23, amended: the same, the second part being claimed only for an update
\* between whose read and write no other writer changed the collection.
C23_UpdateNeverAddsUndisturbed ==
    [][/\ UnmatchedUpdateIsNoOp
       /\ \A c \in Slots :
            (/\ calls[c].op = "updateMyRecipe"
             /\ calls'[c] # calls[c]
             /\ calls[c].pc = "write" => Persisted(MY_RECIPES_KEY) = calls[c].got) =>
                /\ Len(Persisted(MY_RECIPES_KEY)') <= Len(Persisted(MY_RECIPES_KEY))
                /\ Displayed(Persisted(MY_RECIPES_KEY)', calls[c].arg.id)
                        => Displayed(Persisted(MY_RECIPES_KEY), calls[c].arg.id)
      ]_vars

\* A record was deleted and an update of the same id, started after the delete
\* had written, has returned: other records are stored, that one is not.
C23_Witness ==
    \E c, d \in Slots :
        /\ Done(d, "deleteMyRecipe")
        /\ calls[d].errors = {}
        /\ Displayed(calls[d].got, calls[d].arg)
        /\ Done(c, "updateMyRecipe")
        /\ calls[c].errors = {}
        /\ calls[c].arg.id = calls[d].arg
        /\ calls[c].got = DeleteFilter(calls[d].got, calls[d].arg)
        /\ Persisted(MY_RECIPES_KEY) = calls[c].got
        /\ Persisted(MY_RECIPES_KEY) # <<>>


\* C24, as claimed: when an addMyRecipe that ran alone completes, whether its
\* read of the collection failed or not, the records persisted before are
\* still persisted, unmodified and in order, and the new record, if stored,
\* follows them as the last element.
C24_AddOnlyAppends ==
    [][\A c \in Slots :
        (/\ At(c, "addMyRecipe", "write")
         /\ calls'[c].pc = "done"
         /\ \A d \in Slots \ {c} : calls[d].pc = "idle") =>
            LET before == Persisted(MY_RECIPES_KEY)
                after == Persisted(MY_RECIPES_KEY)'
            IN /\ Len(after) >= Len(before)
               /\ SubSeq(after, 1, Len(before)) = before
               /\ storage' # storage => after = Append(before, Last(after))
      ]_vars

-----------------------------------------------------------------------------
(* Properties of the Favorites list *)

\* C25: when a focus fetch of the Favorites screen completes, the displayed
\* list is the sub-sequence, in source order, of the static catalog followed by
\* the user recipes the fetch read (the persisted ones, or none when that read
\* failed), made of the recipes whose id is among the fetched favorite ids; the
\* order of the ids plays no part and an id of no recipe contributes nothing.
C25_FavoritesInSourceOrder ==
    [][\A c \in Slots :
        FavoritesLoaded(c) =>
            LET favoriteIds == calls[c].arg
                userRecipes == IF "Error reading my recipes:" \in calls'[c].errors
                               THEN <<>> ELSE Persisted(MY_RECIPES_KEY)
                source == MOCK_RECIPES \o userRecipes
            IN favoriteRecipes' =
                    Pick(source, {i \in 1..Len(source) :
                                    \E j \in 1..Len(favoriteIds) :
                                        favoriteIds[j] = source[i].id})
      ]_vars

\* The favorites hold the id of a user recipe that is not stored, then "2",
\* then "1": the fetch completed and recipe 1 is displayed before recipe 2,
\* and nothing else.
C25_Witness ==
    /\ OnTop("Favorites")
    /\ Len(favoriteRecipes) = 2
    /\ favoriteRecipes[1].id = toString(1)
    /\ favoriteRecipes[2].id = toString(2)
    /\ \E c \in Slots :
        /\ calls[c].owner = "Favorites.loadFavorites.userRecipes"
        /\ calls[c].pc = "done"
        /\ calls[c].errors = {}
        /\ calls[c].arg = <<UserPrefix \o toString(ClockStart - 1), toString(2), toString(1)>>

-----------------------------------------------------------------------------
(* Properties of the navigation stack *)

\* MainFeed is at the bottom of a stack that is never empty, and AddRecipe and
\* EditRecipe lie directly on top of MyRecipes.
StackShape ==
    /\ Len(nav) >= 1
    /\ nav[1].name = "MainFeed"
    /\ \A i \in 1..Len(nav) :
        nav[i].name \in {"AddRecipe", "EditRecipe"} =>
            i > 1 /\ nav[i - 1].name = "MyRecipes"

PopsOne == nav' = SubSeq(nav, 1, Len(nav) - 1)

-----------------------------------------------------------------------------
(* Properties of the Main Feed list *)

-----------------------------------------------------------------------------
(* Properties of the Detail screen *)

NothingPending == \A c \in Slots : calls[c].pc \notin {"read", "write"}

\* C28: whenever no call is pending and none of the Detail screen's calls has
\* logged a storage failure, isFavorited is the membership of the recipe's id
\* in the persisted favorites, however the focus-time check and the presses of
\* the heart on that screen, overlapping or not, were interleaved.
C28_IsFavoritedIsPersisted ==
    (/\ OnTop("RecipeDetail")
     /\ NothingPending
     /\ lastToggle.logged = {}) =>
        (isFavorited <=> includes(Persisted(FAVORITES_KEY), Top.recipe.id))

\* Four presses of the heart have settled without a failure, and the recipe is
\* shown and stored as a favorite.
C28_Witness ==
    /\ OnTop("RecipeDetail")
    /\ NothingPending
    /\ lastToggle.logged = {}
    /\ lastToggle.n = 4
    /\ budget = MaxDetailOps - 4
    /\ isFavorited
    /\ includes(Persisted(FAVORITES_KEY), Top.recipe.id)

-----------------------------------------------------------------------------
(* Properties of the Add and Edit forms together *)

-----------------------------------------------------------------------------
(* Properties of the two collections together *)

\* Call c takes a step.
Steps(c) == calls'[c] # calls[c]

\* C30: the stored favorites change only in the write of a toggleFavorite; no
\* step of addMyRecipe, updateMyRecipe or deleteMyRecipe changes them, and no
\* step of toggleFavorite changes the stored user recipes.
C30_CollectionsApart ==
    [][/\ storage'[FAVORITES_KEY] # storage[FAVORITES_KEY] =>
            \E c \in Slots : At(c, "toggleFavorite", "write") /\ Steps(c)
       /\ \A c \in Slots :
            /\ (Steps(c) /\ calls[c].op \in {"addMyRecipe", "updateMyRecipe", "deleteMyRecipe"}
                         /\ calls[c].pc \in {"read", "write"}) =>
                    storage'[FAVORITES_KEY] = storage[FAVORITES_KEY]
            /\ (Steps(c) /\ calls[c].op = "toggleFavorite"
                         /\ calls[c].pc \in {"read", "write"}) =>
                    storage'[MY_RECIPES_KEY] = storage[MY_RECIPES_KEY]
      ]_vars

\* A user recipe whose id is among the favorites was deleted, without a
\* failure: it is gone from the user recipes and its id is still a favorite.
C30_Witness ==
    \E c \in Slots :
        /\ Done(c, "deleteMyRecipe")
        /\ calls[c].errors = {}
        /\ Displayed(calls[c].got, calls[c].arg)
        /\ ~Displayed(Persisted(MY_RECIPES_KEY), calls[c].arg)
        /\ includes(Persisted(FAVORITES_KEY), calls[c].arg)

====
